---- MODULE Spec2Model ----
(***************************************************************************)
(* A model of the event-discovery pipeline of src/backend/parser.py:       *)
(* the search cache and query normaliser, the web search client, the page  *)
(* parser and the orchestrator (parse_events / GET_EVENTS).                *)
(*                                                                         *)
(* Text is modelled as a sequence of characters.  A character is a string  *)
(* naming it: an ASCII character is itself ("a", ".", " "), a Cyrillic     *)
(* letter is "ru_" or "RU_" followed by its transliteration ("ru_m" is the *)
(* small letter em, "RU_M" the capital one), and the two characters of the *)
(* mojibake class are "U+00D0" and "U+00D1".                               *)
(***************************************************************************)
EXTENDS Integers, Sequences, FiniteSets, TLC

VARIABLES
    \* ---- one DuckDuckGoSearch object (parser.py:17-110)
    cache,              \* self.cache: OrderedDict, as a sequence of [k, v] in insertion order
    cache_timestamps,   \* self.cache_timestamps: dict key -> time of the store
    now,                \* the wall clock read by datetime.now()
    last,               \* the last search() call: its arguments, pre-state and outcome
    \* ---- _generate_cache_key applied to a pair of queries (parser.py:32-35)
    kq,                 \* the two queries
    kkey,               \* their keys, once computed
    \* ---- GET_EVENTS / parse_events (parser.py:325-378)
    pc,                 \* "idle", "loop" (inside the for loop), "returned"
    act_query,          \* the query handed to parse_events
    today,              \* today = datetime.now() at parser.py:326
    urls,               \* the candidate URLs search returned
    idx,                \* the number of candidate URLs processed so far
    events,             \* the list events
    added_count,
    skipped_count,
    steps,              \* per processed URL: the page met, what parse returned, the effects
    history,            \* per GET_EVENTS call of this process: its search
    \* ---- one helper of the parser called on its own, or search called
    \* ---- from several threads
    call,               \* the helper and its arguments; per thread, where its call stands
    rets,               \* what was returned, call after call
    \* ---- the bot (main.py): the users table, and the conversation of
    \* ---- one user with the bot
    users,              \* the table users: user_id -> its row, or NoRow
    fsm,                \* the user's record in MemoryStorage: state and data
    keyboards,          \* the callback data of the inline buttons sent to the user
    tasks,              \* the handlers, or update_user_calendar calls, in flight
    trace               \* what was dispatched, written and returned, in order

varsCache == <<cache, cache_timestamps, now, last>>
varsKey   == <<kq, kkey>>
varsPipe  == <<pc, act_query, today, urls, idx, events, added_count, skipped_count,
               steps, history>>
varsCall  == <<call, rets>>
varsBot   == <<users, fsm, keyboards, tasks, trace>>
vars      == <<cache, cache_timestamps, now, last, kq, kkey,
               pc, act_query, today, urls, idx, events, added_count, skipped_count,
               steps, history, call, rets,
               users, fsm, keyboards, tasks, trace>>

-----------------------------------------------------------------------------
(* Bounds of the model *)

\* DuckDuckGoSearch(cache_size, cache_ttl): the object under test is
\* constructed with a small capacity and a small TTL (clock ticks).
cache_size == 2
cache_ttl == 2
\* the clock stops advancing here
MaxTime == 3
\* longest query text enumerated for the key generator
MaxQueryLen == 3
\* longest list of result anchors enumerated for one response body
MaxAnchors == 2

\* longest title enumerated for the title validator
MaxTitleLen == 6

\* longest model response (in tokens) enumerated for the response parser
MaxTokens == 4

\* most members of the JSON object enumerated for parse
MaxMembers == 3

\* urls[:10] (parser.py:104,106)
MaxUrls == 10

-----------------------------------------------------------------------------
(* Text *)

None == <<"<None>">>

Whitespace == {" ", "\t", "\n"}

LatinLower == <<"a","b","c","d","e","f","g","h","i","j","k","l","m",
                "n","o","p","q","r","s","t","u","v","w","x","y","z">>
LatinUpper == <<"A","B","C","D","E","F","G","H","I","J","K","L","M",
                "N","O","P","Q","R","S","T","U","V","W","X","Y","Z">>
\* the 32 letters of the range U+0430..U+044F, in code-point order
CyrLower == <<"ru_a","ru_b","ru_v","ru_g","ru_d","ru_e","ru_zh","ru_z",
              "ru_i","ru_j","ru_k","ru_l","ru_m","ru_n","ru_o","ru_p",
              "ru_r","ru_s","ru_t","ru_u","ru_f","ru_h","ru_c","ru_ch",
              "ru_sh","ru_sch","ru_hard","ru_y","ru_soft","ru_eh","ru_yu","ru_ya">>
CyrUpper == <<"RU_A","RU_B","RU_V","RU_G","RU_D","RU_E","RU_ZH","RU_Z",
              "RU_I","RU_J","RU_K","RU_L","RU_M","RU_N","RU_O","RU_P",
              "RU_R","RU_S","RU_T","RU_U","RU_F","RU_H","RU_C","RU_CH",
              "RU_SH","RU_SCH","RU_HARD","RU_Y","RU_SOFT","RU_EH","RU_YU","RU_YA">>
UpperChars == LatinUpper \o CyrUpper \o <<"RU_YO">>
LowerChars == LatinLower \o CyrLower \o <<"ru_yo">>

Range(s) == {s[i] : i \in 1..Len(s)}
Min(a, b) == IF a < b THEN a ELSE b

\* str.lower() on one character
LowerChar(c) ==
    IF \E i \in 1..Len(UpperChars) : UpperChars[i] = c
    THEN LowerChars[CHOOSE i \in 1..Len(UpperChars) : UpperChars[i] = c]
    ELSE c

\* str.lower()
lower(s) == [i \in 1..Len(s) |-> LowerChar(s[i])]

RECURSIVE lstrip(_)
lstrip(s) == IF s # <<>> /\ Head(s) \in Whitespace THEN lstrip(Tail(s)) ELSE s

RECURSIVE rstrip(_)
rstrip(s) ==
    IF s # <<>> /\ s[Len(s)] \in Whitespace
    THEN rstrip(SubSeq(s, 1, Len(s) - 1))
    ELSE s

\* str.strip()
strip(s) == rstrip(lstrip(s))

\* re.sub(r'\s+', ' ', s): every maximal run of whitespace becomes one space
RECURSIVE SubWhitespace(_)
SubWhitespace(s) ==
    IF s = <<>> THEN <<>>
    ELSE IF Head(s) \in Whitespace THEN <<" ">> \o SubWhitespace(lstrip(s))
    ELSE <<Head(s)>> \o SubWhitespace(Tail(s))

StartsWith(s, p) == Len(s) >= Len(p) /\ SubSeq(s, 1, Len(p)) = p
EndsWith(s, p) == Len(s) >= Len(p) /\ SubSeq(s, Len(s) - Len(p) + 1, Len(s)) = p

\* the positions at which p occurs in s
Occurrences(s, p) ==
    {i \in 1..(Len(s) - Len(p) + 1) : SubSeq(s, i, i + Len(p) - 1) = p}

\* p in s
Contains(s, p) == Occurrences(s, p) # {}

SetMin(S) == CHOOSE x \in S : \A y \in S : x <= y
SetMax(S) == CHOOSE x \in S : \A y \in S : x >= y

\* s[:n]
Take(s, n) == SubSeq(s, 1, Min(n, Len(s)))

-----------------------------------------------------------------------------
(* DuckDuckGoSearch._generate_cache_key (parser.py:32-35) *)

\* salt = "ddg_v2"
salt == <<"d","d","g","_","v","2">>

\* the normalisation without the lowercasing
NormalizeQuery_CaseKept(query) == SubWhitespace(strip(query))

\* normalized = re.sub(r'\s+', ' ', query.lower().strip())
NormalizeQuery(query) == SubWhitespace(strip(lower(query)))

\* hashlib.sha256(...).hexdigest(): the digest is kept symbolic, as the
\* digest of the text it was computed from (SHA-256 taken as collision free)
sha256_hexdigest(text) == [sha256 |-> text]

generate_cache_key(query) == sha256_hexdigest(NormalizeQuery(query) \o salt)

-----------------------------------------------------------------------------
(* DuckDuckGoSearch._is_ru_domain and ._clean_url (parser.py:37-66) *)

S_http == <<"h","t","t","p",":","/","/">>
S_https == <<"h","t","t","p","s",":","/","/">>
S_wrapper == <<"d","u","c","k","d","u","c","k","g","o",".","c","o","m","/","l","/","?","u","d","d","g","=">>
S_uddg == <<"u","d","d","g","=">>

\* allowed = ['.ru', '.su', '.rf' (Cyrillic), '.moscow', '.tech', '.com', '.org', '.net']
allowed == << <<".","r","u">>, <<".","s","u">>, <<".","ru_r","ru_f">>,
             <<".","m","o","s","c","o","w">>, <<".","t","e","c","h">>,
             <<".","c","o","m">>, <<".","o","r","g">>, <<".","n","e","t">> >>

\* the names tested against the netloc at parser.py:61
denied == << <<"d","u","c","k","d","u","c","k","g","o">>, <<"y","a","n","d","e","x">>, <<"g","o","o","g","l","e">>, <<"v","k">> >>

\* urllib.parse.unquote on the escapes the search engine's wrapper uses;
\* an escape outside this table is left as it is written
HexPairs == << <<"3","A">>, <<"2","F">>, <<"3","F">>, <<"3","D">>, <<"2","6">>, <<"2","5">>, <<"2","0">> >>
HexChars == << ":", "/", "?", "=", "&", "%", " " >>
UpperHex(c) == IF c \in {"a","b","c","d","e","f"} THEN LatinUpper[CHOOSE i \in 1..6 : LatinLower[i] = c] ELSE c

RECURSIVE unquote(_)
unquote(s) ==
    IF s = <<>> THEN <<>>
    ELSE IF /\ Head(s) = "%"
            /\ Len(s) >= 3
            /\ \E i \in 1..Len(HexPairs) : HexPairs[i] = <<UpperHex(s[2]), UpperHex(s[3])>>
         THEN <<HexChars[CHOOSE i \in 1..Len(HexPairs) :
                            HexPairs[i] = <<UpperHex(s[2]), UpperHex(s[3])>>]>>
              \o unquote(SubSeq(s, 4, Len(s)))
         ELSE <<Head(s)>> \o unquote(Tail(s))

\* re.search(r'uddg=([^&]+)', s): the leftmost "uddg=" that is followed by
\* a character other than "&"; group 1 runs up to the next "&" or the end
UddgStarts(s) ==
    {i \in Occurrences(s, S_uddg) : i + 5 <= Len(s) /\ s[i + 5] # "&"}
UddgGroup(s) ==
    LET b == SetMin(UddgStarts(s)) + 5
        stops == {j \in b..Len(s) : s[j] = "&"}
        e == IF stops = {} THEN Len(s) ELSE SetMin(stops) - 1
    IN  SubSeq(s, b, e)

\* urlparse(url).netloc for a url that starts with http:// or https://:
\* the text between the "//" and the first of "/", "?", "#"
Netloc(url) ==
    LET b == IF StartsWith(url, S_https) THEN Len(S_https) + 1 ELSE Len(S_http) + 1
        stops == {j \in b..Len(url) : url[j] \in {"/", "?", "#"}}
        e == IF stops = {} THEN Len(url) ELSE SetMin(stops) - 1
    IN  SubSeq(url, b, e)

\* urlsplit raises ValueError("Invalid IPv6 URL") on an unbalanced bracket
UrlparseRaises(url) ==
    LET n == Netloc(url) IN ("[" \in Range(n)) # ("]" \in Range(n))

\* parser.py:37-44
is_ru_domain(url) ==
    IF UrlparseRaises(url) THEN FALSE
    ELSE LET domain == lower(Netloc(url)) IN
         \E i \in 1..Len(allowed) :
             EndsWith(domain, allowed[i]) \/ Contains(domain, <<".">> \o allowed[i])

\* parser.py:61
NetlocDenied(netloc) == \E i \in 1..Len(denied) : Contains(netloc, denied[i])

\* parser.py:48-51: the target of a redirect wrapper, URL-decoded
Unwrap(raw_url) ==
    IF Contains(raw_url, S_wrapper) /\ UddgStarts(raw_url) # {}
    THEN unquote(UddgGroup(raw_url))
    ELSE raw_url

\* parser.py:54-64, on the stripped text
CleanStripped(url) ==
    IF ~(StartsWith(url, S_http) \/ StartsWith(url, S_https)) THEN None
    ELSE IF UrlparseRaises(url) THEN None
    ELSE IF Netloc(url) = <<>> THEN None
    ELSE IF NetlocDenied(Netloc(url)) THEN None
    ELSE url

\* parser.py:46-66; None when the url is rejected
clean_url(raw_url) == CleanStripped(strip(Unwrap(raw_url)))

-----------------------------------------------------------------------------
(* DuckDuckGoSearch.search (parser.py:68-110) *)

\* the loop without the test against the set seen
KeepUrl_SeenIgnored(clean, acc) ==
    IF clean # None /\ is_ru_domain(clean) THEN Append(acc, clean) ELSE acc

\* parser.py:90-94 and 99-102: one href, cleaned, against the list so far
KeepUrl(clean, acc) ==
    IF clean # None /\ clean \notin Range(acc) /\ is_ru_domain(clean)
    THEN Append(acc, clean)
    ELSE acc

\* the loops at parser.py:86-94 and 98-102: hrefs is scanned in order,
\* acc is the list urls (the set seen holds the same elements)
RECURSIVE CollectUrls(_, _)
CollectUrls(hrefs, acc) ==
    IF hrefs = <<>> THEN acc
    ELSE IF Head(hrefs) = <<>> THEN CollectUrls(Tail(hrefs), acc)
    ELSE CollectUrls(Tail(hrefs), KeepUrl(clean_url(Head(hrefs)), acc))

\* parser.py:96-102: the raw href scan of the body, only when no anchor survived
Fallback(found, raw_links) ==
    IF found = <<>> THEN CollectUrls(raw_links, <<>>) ELSE found

\* parser.py:81-102
ExtractUrls(body) == Fallback(CollectUrls(body.anchors, <<>>), body.raw_links)

CacheKeys(c) == [i \in 1..Len(c) |-> c[i].k]
CacheHas(c, key) == \E i \in 1..Len(c) : c[i].k = key
CacheGet(c, key) == c[CHOOSE i \in 1..Len(c) : c[i].k = key].v
\* OrderedDict.__setitem__: a present key keeps its place, a new key goes last
CachePut(c, key, value) ==
    IF CacheHas(c, key)
    THEN [i \in 1..Len(c) |-> IF c[i].k = key THEN [k |-> key, v |-> value] ELSE c[i]]
    ELSE Append(c, [k |-> key, v |-> value])
DictPut(d, key, value) ==
    [x \in DOMAIN d \cup {key} |-> IF x = key THEN value ELSE d[x]]

\* the TTL test with the boundary on the wrong side: an entry exactly
\* cache_ttl old still counts as fresh
IsCacheHit_AgeLeq(c, ts, t, key) ==
    /\ \E i \in 1..Len(c) : c[i].k = key
    /\ key \in DOMAIN ts
    /\ t - ts[key] <= cache_ttl

\* parser.py:70: key in self.cache and age < self.cache_ttl, the age of a
\* key without a timestamp being counted from datetime.min
IsCacheHit(c, ts, t, key) ==
    /\ CacheHas(c, key)
    /\ key \in DOMAIN ts
    /\ t - ts[key] < cache_ttl

\* the store skipped for an empty result (if urls: ...)
StoreResult_SkipEmpty(c, ts, key, found, t) ==
    IF found = <<>>
    THEN [raised |-> FALSE, cache |-> c, ts |-> ts, ret |-> found]
    ELSE [raised |-> FALSE,
          cache |-> CachePut(c, key, found),
          ts |-> DictPut(ts, key, t),
          ret |-> found]

\* parser.py:104-106: the store after a parsed response
StoreResult(c, ts, key, found, t) ==
    [raised |-> FALSE,
     cache |-> CachePut(c, key, found),
     ts |-> DictPut(ts, key, t),
     ret |-> found]

\* parser.py:78-106, the body of the try: the POST (a network error raises),
\* raise_for_status (an error status raises), the extraction and the store.
\* t is the clock when the response has been parsed.
SearchTry(c, ts, key, response, t) ==
    IF response.kind # "ok"
    THEN [raised |-> TRUE, cache |-> c, ts |-> ts, ret |-> <<>>]
    ELSE StoreResult(c, ts, key, Take(ExtractUrls(response.body), MaxUrls), t)

\* the handler missing: the exception leaves search
SearchExcept_Reraise(r) == r

\* parser.py:108-110: except Exception: return []
SearchExcept(r) ==
    IF r.raised THEN [r EXCEPT !.raised = FALSE, !.ret = <<>>] ELSE r

\* parser.py:73-110: the path of a lookup that missed
SearchMiss(r) ==
    [hit |-> FALSE, posted |-> TRUE, raised |-> r.raised,
     cache |-> r.cache, ts |-> r.ts, ret |-> r.ret]

\* parser.py:69-110 with the key computed
SearchWithKey(c, ts, t, cache_key, response, d) ==
    IF IsCacheHit(c, ts, t, cache_key)
    THEN [hit |-> TRUE, posted |-> FALSE, raised |-> FALSE,
          cache |-> c, ts |-> ts, ret |-> CacheGet(c, cache_key)]
    ELSE SearchMiss(SearchExcept(SearchTry(c, ts, cache_key, response, t + d)))

\* one call of search at clock t, the response arriving d ticks later
search(c, ts, t, query, response, d) ==
    SearchWithKey(c, ts, t, generate_cache_key(query), response, d)

-----------------------------------------------------------------------------
(* The state of the parts of the program a specification leaves alone *)

ParkedCache ==
    /\ cache = <<>>
    /\ cache_timestamps = <<>>
    /\ now = 0
    /\ last = [op |-> "none"]

ParkedKey ==
    /\ kq = <<>>
    /\ kkey = <<>>

ParkedPipe ==
    /\ pc = "idle"
    /\ act_query = <<>>
    /\ today = [date |-> <<1, 1, 1>>, midnight |-> TRUE]
    /\ urls = <<>>
    /\ idx = 0
    /\ events = <<>>
    /\ added_count = 0
    /\ skipped_count = 0
    /\ steps = <<>>
    /\ history = <<>>

ParkedCall ==
    /\ call = [fn |-> "none"]
    /\ rets = <<>>

ParkedBot ==
    /\ users = <<>>
    /\ fsm = <<>>
    /\ keyboards = {}
    /\ tasks = <<>>
    /\ trace = <<>>

-----------------------------------------------------------------------------
(* SpecCache: one DuckDuckGoSearch object under any sequence of search     *)
(* calls, with the clock advancing between and during the calls            *)

Q_ai == <<"a","i"," ","c","o","n","f">>
Q_AI == <<" ","A","I"," ","\t","C","o","n","f">>
Q_ml == <<"m","l">>
Q_qa == <<"q","a">>
CacheQueries == {Q_ai, Q_AI, Q_ml, Q_qa}

U_a == <<"h","t","t","p","s",":","/","/","a",".","r","u","/","1">>
U_b == <<"h","t","t","p",":","/","/","b",".","s","u">>

Body(anchors, raw_links) == [anchors |-> anchors, raw_links |-> raw_links]
Response(kind, body) == [kind |-> kind, body |-> body]
NetworkError == Response("network_error", Body(<<>>, <<>>))
HttpError == Response("http_error", Body(<<>>, <<>>))
\* a lookup that hits asks for nothing: no response is drawn for it
NoResponse == Response("none", Body(<<>>, <<>>))

\* an exception raised while the body is parsed (parser.py:83-102)
ParseError == Response("parse_error", Body(<<>>, <<>>))

CacheResponses ==
    {NetworkError, HttpError, ParseError,
     Response("ok", Body(<<>>, <<>>)),
     Response("ok", Body(<<U_a>>, <<>>))}

InitCache ==
    /\ cache = <<>>
    /\ cache_timestamps = <<>>
    /\ now = 0
    /\ last = [op |-> "none"]
    /\ ParkedKey
    /\ ParkedPipe
    /\ ParkedCall
    /\ ParkedBot

\* search(query) on the object, the response (if one is asked for)
\* arriving d ticks after the lookup
SearchCall(query, response, d) ==
    /\ now + d <= MaxTime
    /\ \E r \in {search(cache, cache_timestamps, now, query, response, d)},
          key \in {generate_cache_key(query)} :
       /\ cache' = r.cache
       /\ cache_timestamps' = r.ts
       /\ now' = now + d
       /\ last' = [op |-> "search",
                   key |-> key,
                   at |-> now,
                   end |-> now + d,
                   pre_keys |-> CacheKeys(cache),
                   pre_stamp |-> IF key \in DOMAIN cache_timestamps
                                 THEN cache_timestamps[key] ELSE -1,
                   pre_value |-> IF CacheHas(cache, key)
                                 THEN CacheGet(cache, key) ELSE None,
                   response |-> response,
                   hit |-> r.hit,
                   posted |-> r.posted,
                   raised |-> r.raised,
                   ret |-> r.ret]

Search ==
    /\ \E query \in CacheQueries :
           IF IsCacheHit(cache, cache_timestamps, now, generate_cache_key(query))
           THEN SearchCall(query, NoResponse, 0)
           ELSE \E response \in CacheResponses, d \in 0..1 :
                    SearchCall(query, response, d)
    /\ UNCHANGED varsKey
    /\ UNCHANGED varsBot
    /\ UNCHANGED varsCall
    /\ UNCHANGED varsPipe

\* time passes between two calls
Tick ==
    /\ now < MaxTime
    /\ now' = now + 1
    /\ UNCHANGED <<cache, cache_timestamps, last>>
    /\ UNCHANGED varsKey
    /\ UNCHANGED varsBot
    /\ UNCHANGED varsCall
    /\ UNCHANGED varsPipe

NextCache == Search \/ Tick

SpecCache == InitCache /\ [][NextCache]_vars

-----------------------------------------------------------------------------
(* Claims about the cache, checked under SpecCache *)

Searched == last.op = "search"
Failed(response) == response.kind \in {"network_error", "http_error", "parse_error"}

\* C2: the cache respects the TTL.  A lookup of a key stored at time t0 is
\* a hit (the stored list is returned, no request is issued) when
\* now - t0 < TTL and a miss (a live search is issued) when now - t0 >= TTL;
\* the lookup purges nothing: every key held before the call is still held
\* after it, and an expired entry whose refresh fails keeps its list and stamp.
C2_CacheRespectsTTL ==
    (Searched /\ last.pre_stamp >= 0) =>
        /\ (last.at - last.pre_stamp < cache_ttl) =>
               (last.hit /\ ~last.posted /\ last.ret = last.pre_value)
        /\ (last.at - last.pre_stamp >= cache_ttl) =>
               (~last.hit /\ last.posted)
        /\ \A i \in 1..Len(last.pre_keys) : CacheKeys(cache)[i] = last.pre_keys[i]
        /\ (~last.hit /\ Failed(last.response)) =>
               /\ CacheGet(cache, last.key) = last.pre_value
               /\ cache_timestamps[last.key] = last.pre_stamp

\* an expired entry was looked up and a live search was issued for it
C2_Witness ==
    /\ Searched
    /\ last.pre_stamp >= 0
    /\ last.at - last.pre_stamp = cache_ttl
    /\ last.posted

\* C4: the number of stored entries never exceeds the configured capacity.
C4_CapacityBounded == Len(cache) <= cache_size

\* C5: storing a distinct key into a full cache removes exactly the
\* first-inserted key and no other.
C5_EvictsOldestInserted ==
    (/\ Searched
     /\ ~last.hit
     /\ last.response.kind = "ok"
     /\ Len(last.pre_keys) = cache_size
     /\ last.key \notin Range(last.pre_keys)) =>
        CacheKeys(cache) = Append(Tail(last.pre_keys), last.key)

C8_SearchNeverRaises ==
    Searched =>
        /\ ~last.raised
        /\ (last.posted /\ Failed(last.response)) => last.ret = <<>>

\* a search whose request failed
C8_Witness ==
    /\ Searched
    /\ last.posted
    /\ last.response.kind = "network_error"

-----------------------------------------------------------------------------
(* SpecKey: _generate_cache_key applied to every pair of short queries *)

KeyAlphabet == {"a", "A", " ", "\t"}
QueryTexts == UNION {[1..n -> KeyAlphabet] : n \in 0..MaxQueryLen}

InitKey ==
    /\ kq \in QueryTexts \X QueryTexts
    /\ kkey = <<>>
    /\ ParkedCache
    /\ ParkedPipe
    /\ ParkedCall
    /\ ParkedBot

ComputeKeys ==
    /\ kkey = <<>>
    /\ kkey' = <<generate_cache_key(kq[1]), generate_cache_key(kq[2])>>
    /\ UNCHANGED kq
    /\ UNCHANGED varsBot
    /\ UNCHANGED varsCache
    /\ UNCHANGED varsPipe
    /\ UNCHANGED varsCall

NextKey == ComputeKeys

SpecKey == InitKey /\ [][NextKey]_vars

\* the words of a text: its maximal runs of characters other than
\* whitespace, lowercased
RECURSIVE FirstWord(_)
FirstWord(s) ==
    IF s = <<>> \/ Head(s) \in Whitespace THEN <<>>
    ELSE <<Head(s)>> \o FirstWord(Tail(s))
RECURSIVE Words(_)
Words(s) ==
    IF s = <<>> THEN <<>>
    ELSE IF Head(s) \in Whitespace THEN Words(Tail(s))
    ELSE <<lower(FirstWord(s))>> \o Words(SubSeq(s, Len(FirstWord(s)) + 1, Len(s)))
\* the words joined by single spaces: the text lowercased, trimmed and
\* with every run of whitespace collapsed
RECURSIVE JoinWords(_)
JoinWords(ws) ==
    IF ws = <<>> THEN <<>>
    ELSE IF Len(ws) = 1 THEN ws[1]
    ELSE ws[1] \o <<" ">> \o JoinWords(Tail(ws))

\* C6: two queries that are equal after lowercasing, trimming and
\* collapsing each run of whitespace to one space get the same key, and
\* the normalised form of a query gets the key of the query.
C6_KeyInvariantUnderCaseAndWhitespace ==
    kkey # <<>> =>
        /\ (Words(kq[1]) = Words(kq[2])) => (kkey[1] = kkey[2])
        /\ generate_cache_key(JoinWords(Words(kq[1]))) = kkey[1]

\* two different texts of the same two words, one with a capital and a tab
C6_Witness ==
    /\ kkey # <<>>
    /\ kq[1] # kq[2]
    /\ Words(kq[1]) = Words(kq[2])
    /\ Len(Words(kq[1])) = 2
    /\ "A" \in Range(kq[1])
    /\ "\t" \in Range(kq[1])

-----------------------------------------------------------------------------
(* SpecSearch: search on a fresh DuckDuckGoSearch object, over response    *)
(* bodies built from hrefs of every kind, and the same query once more     *)

H_conf == <<"h","t","t","p","s",":","/","/","c","o","n","f",".","r","u","/","a">>
H_meet == <<"h","t","t","p",":","/","/","m","e","e","t",".","s","u">>
H_wrapped == <<"/","/","d","u","c","k","d","u","c","k","g","o",".","c","o","m","/","l","/","?","u","d","d","g","=","h","t","t","p","s","%","3","A","%","2","F","%","2","F","c","o","n","f",".","r","u","%","2","F","a","&","r","u","t","=","1">>
H_spaced == <<" ","h","t","t","p","s",":","/","/","c","o","n","f",".","r","u","/","a"," ">>
H_vk == <<"h","t","t","p","s",":","/","/","v","k",".","c","o","m","/","x">>
H_VK == <<"h","t","t","p","s",":","/","/","V","K",".","c","o","m","/","x">>
H_vkusvill == <<"h","t","t","p","s",":","/","/","v","k","u","s","v","i","l","l",".","r","u","/","e">>
H_ddg == <<"h","t","t","p","s",":","/","/","d","u","c","k","d","u","c","k","g","o",".","c","o","m","/","y">>
H_xyz == <<"h","t","t","p","s",":","/","/","c","o","n","f",".","x","y","z","/","a">>
H_port == <<"h","t","t","p","s",":","/","/","c","o","n","f",".","r","u",":","8","0","8","0","/","a">>
H_relative == <<"/","r","e","l","a","t","i","v","e">>
H_nohost == <<"h","t","t","p","s",":","/","/","/","a">>
H_ftp == <<"f","t","p",":","/","/","c","o","n","f",".","r","u","/","a">>
H_org == <<"h","t","t","p","s",":","/","/","r","a","w",".","o","r","g","/","r">>
H_none == <<>>

Hrefs == {H_conf, H_meet, H_wrapped, H_spaced, H_vk, H_VK, H_vkusvill, H_ddg,
          H_xyz, H_port, H_relative, H_nohost, H_ftp, H_none}
\* what re.findall(r'href=["\'](https?://[^"\']+)["\']', text) can yield
RawHrefs == {H_conf, H_vk, H_xyz, H_org}

\* a page of twelve distinct results, and one that repeats its first result
Digits == <<"0","1","2","3","4","5","6","7","8","9","a","b">>
LongAnchors == [i \in 1..12 |-> <<"h","t","t","p","s",":","/","/","a",".","r","u","/">> \o <<Digits[i]>>]
LongAnchorsRepeating == <<LongAnchors[1], LongAnchors[1]>> \o Tail(LongAnchors)

SearchBodies ==
    {Body(a, r) : a \in UNION {[1..n -> Hrefs] : n \in 0..MaxAnchors},
                  r \in UNION {[1..n -> RawHrefs] : n \in 0..1}}
    \cup {Body(LongAnchors, <<>>), Body(LongAnchorsRepeating, <<H_org>>),
          Body(<<H_vk>>, LongAnchors)}

InitSearch == InitCache

\* the first call on the object
SearchFresh ==
    /\ last.op = "none"
    /\ \E body \in SearchBodies : SearchCall(Q_ai, Response("ok", body), 0)
    /\ UNCHANGED varsKey
    /\ UNCHANGED varsBot
    /\ UNCHANGED varsCall
    /\ UNCHANGED varsPipe

\* the same query again, at once: served from the cache
SearchAgain ==
    /\ last.op = "search"
    /\ ~last.hit
    /\ SearchCall(Q_AI, NoResponse, 0)
    /\ UNCHANGED varsKey
    /\ UNCHANGED varsBot
    /\ UNCHANGED varsCall
    /\ UNCHANGED varsPipe

NextSearch == SearchFresh \/ SearchAgain

SpecSearch == InitSearch /\ [][NextSearch]_vars

-----------------------------------------------------------------------------
(* Claims about the search client, checked under SpecSearch *)

\* an href survives when cleaning returns a URL and the allow-list admits it
Survives(href) ==
    /\ href # <<>>
    /\ clean_url(href) # None
    /\ is_ru_domain(clean_url(href))

FirstIndex(url, hrefs) ==
    SetMin({i \in 1..Len(hrefs) : hrefs[i] # <<>> /\ clean_url(hrefs[i]) = url})

NoDuplicates(list) ==
    \A i, j \in 1..Len(list) : i # j => list[i] # list[j]

\* list lists the surviving URLs of hrefs by first appearance, cut after
\* the first MaxUrls of them
FirstAppearances(list, hrefs) ==
    /\ \A j \in 1..Len(list) :
           \E i \in 1..Len(hrefs) : Survives(hrefs[i]) /\ clean_url(hrefs[i]) = list[j]
    /\ \A j, k \in 1..Len(list) :
           j < k => FirstIndex(list[j], hrefs) < FirstIndex(list[k], hrefs)
    /\ \A i \in 1..Len(hrefs) :
           Survives(hrefs[i]) =>
               \/ clean_url(hrefs[i]) \in Range(list)
               \/ /\ Len(list) = MaxUrls
                  /\ FirstIndex(list[MaxUrls], hrefs) < i

ParsedResponse == Searched /\ ~last.hit /\ last.response.kind = "ok"

\* C9 as stated: the returned sequence has at most 10 URLs, no URL twice,
\* and lists the surviving URLs in the order of their first appearance
\* among the result anchors.
C9_OrderedAmongAnchors ==
    Searched =>
        /\ Len(last.ret) <= MaxUrls
        /\ NoDuplicates(last.ret)
        /\ ParsedResponse => FirstAppearances(last.ret, last.response.body.anchors)

\* C9 amended: the returned sequence has at most 10 URLs, no URL twice,
\* and lists the surviving URLs in the order of their first appearance
\* among the result anchors or, when no result anchor survives, among the
\* hrefs of the raw scan of the body.
C9_OrderedAmongScannedHrefs ==
    Searched =>
        /\ Len(last.ret) <= MaxUrls
        /\ NoDuplicates(last.ret)
        /\ ParsedResponse =>
               IF \E i \in 1..Len(last.response.body.anchors) :
                      Survives(last.response.body.anchors[i])
               THEN FirstAppearances(last.ret, last.response.body.anchors)
               ELSE FirstAppearances(last.ret, last.response.body.raw_links)

\* a page with more than ten surviving anchors, the first one twice
C9_Witness ==
    /\ ParsedResponse
    /\ Len(last.response.body.anchors) > MaxUrls
    /\ last.response.body.anchors[1] = last.response.body.anchors[2]
    /\ Len(last.ret) = MaxUrls

\* the host of an absolute URL: its netloc without user info and port,
\* in lower case (host names do not distinguish case)
HostOf(url) ==
    lower(SubSeq(Netloc(url),
                 IF "@" \in Range(Netloc(url))
                 THEN SetMax({i \in 1..Len(Netloc(url)) : Netloc(url)[i] = "@"}) + 1
                 ELSE 1,
                 IF \E i \in 1..Len(Netloc(url)) :
                        Netloc(url)[i] = ":" /\ \A j \in i..Len(Netloc(url)) : Netloc(url)[j] # "@"
                 THEN SetMin({i \in 1..Len(Netloc(url)) :
                        Netloc(url)[i] = ":" /\ \A j \in i..Len(Netloc(url)) : Netloc(url)[j] # "@"}) - 1
                 ELSE Len(Netloc(url))))

\* the labels of a host name
RECURSIVE Labels(_)
Labels(host) ==
    IF "." \notin Range(host) THEN {host}
    ELSE {SubSeq(host, 1, SetMin({i \in 1..Len(host) : host[i] = "."}) - 1)}
         \cup Labels(SubSeq(host, SetMin({i \in 1..Len(host) : host[i] = "."}) + 1, Len(host)))

\* the host is the search engine or one of the aggregators: one of its
\* labels is a denied name (vk.com, m.vk.com, yandex.ru; not vkusvill.ru)
IsDeniedHost(host) == Labels(host) \cap Range(denied) # {}

IsAbsoluteHttp(url) == StartsWith(url, S_http) \/ StartsWith(url, S_https)

\* C10: every returned URL is an absolute http(s) URL with a non-empty
\* host that is neither the search engine nor a denied aggregator and that
\* ends with a permitted suffix; and cleaning rejects an href only when its
\* target is not absolute http(s), has no host, or is on such a host.
C10_OnlyPermittedHostsAndNoOtherRejection ==
    ParsedResponse =>
        /\ \A j \in 1..Len(last.ret) :
               /\ IsAbsoluteHttp(last.ret[j])
               /\ HostOf(last.ret[j]) # <<>>
               /\ ~IsDeniedHost(HostOf(last.ret[j]))
               /\ \E i \in 1..Len(allowed) : EndsWith(HostOf(last.ret[j]), allowed[i])
        /\ \A i \in 1..Len(last.response.body.anchors) :
               (/\ last.response.body.anchors[i] # <<>>
                /\ IsAbsoluteHttp(strip(Unwrap(last.response.body.anchors[i])))
                /\ HostOf(strip(Unwrap(last.response.body.anchors[i]))) # <<>>
                /\ ~IsDeniedHost(HostOf(strip(Unwrap(last.response.body.anchors[i])))))
               => clean_url(last.response.body.anchors[i]) # None

-----------------------------------------------------------------------------
(* EventParser._is_valid_title (parser.py:158-166) *)

\* [а-яА-ЯёЁ]
CyrillicLetters == Range(CyrLower) \cup Range(CyrUpper) \cup {"ru_yo", "RU_YO"}
\* [a-zA-Z]
LatinLetters == Range(LatinLower) \cup Range(LatinUpper)
\* [ÐÑÐ]
GarbageChars == {"U+00D0", "U+00D1"}

\* re.search(r'[ÐÑÐ]{3,}', title)
HasGarbageRun(title) ==
    \E i \in 1..(Len(title) - 2) : \A j \in i..(i + 2) : title[j] \in GarbageChars

\* the test for mojibake left out
is_valid_title_GarbageKept(title) ==
    IF Len(title) < 5 THEN FALSE
    ELSE Range(title) \cap CyrillicLetters # {} \/ Range(title) \cap LatinLetters # {}

\* parser.py:158-166
is_valid_title(title) ==
    IF Len(title) < 5 THEN FALSE
    ELSE /\ (Range(title) \cap CyrillicLetters # {} \/ Range(title) \cap LatinLetters # {})
         /\ ~HasGarbageRun(title)

-----------------------------------------------------------------------------
(* EventParser._parse_date_string (parser.py:195-232) *)
(* A datetime at midnight is the tuple <<year, month, day>>. *)

DigitChars == <<"0","1","2","3","4","5","6","7","8","9">>
IsDigit(c) == c \in Range(DigitChars)
DigitValue(c) == (CHOOSE i \in 1..10 : DigitChars[i] = c) - 1

\* int(text) for a text of decimal digits
RECURSIVE ToInt(_)
ToInt(digits) ==
    IF digits = <<>> THEN 0
    ELSE 10 * ToInt(SubSeq(digits, 1, Len(digits) - 1)) + DigitValue(digits[Len(digits)])

AllDigits(s, from, to) ==
    /\ from >= 1
    /\ to <= Len(s)
    /\ \A j \in from..to : IsDigit(s[j])

\* [./-]
DateSeparators == {".", "/", "-"}
IsSepAt(s, i) == i <= Len(s) /\ s[i] \in DateSeparators
\* [а-яА-Я]
DateLetters == Range(CyrLower) \cup Range(CyrUpper)

\* self.months, in the order of the dict
months == <<
    [key |-> <<"ru_ya","ru_n","ru_v">>, num |-> 1],
    [key |-> <<"ru_ya","ru_n","ru_v","ru_a","ru_r","ru_ya">>, num |-> 1],
    [key |-> <<"ru_ya","ru_n","ru_v","ru_a","ru_r","ru_soft">>, num |-> 1],
    [key |-> <<"ru_f","ru_e","ru_v">>, num |-> 2],
    [key |-> <<"ru_f","ru_e","ru_v","ru_r","ru_a","ru_l","ru_ya">>, num |-> 2],
    [key |-> <<"ru_f","ru_e","ru_v","ru_r","ru_a","ru_l","ru_soft">>, num |-> 2],
    [key |-> <<"ru_m","ru_a","ru_r">>, num |-> 3],
    [key |-> <<"ru_m","ru_a","ru_r","ru_t","ru_a">>, num |-> 3],
    [key |-> <<"ru_m","ru_a","ru_r","ru_t">>, num |-> 3],
    [key |-> <<"ru_a","ru_p","ru_r">>, num |-> 4],
    [key |-> <<"ru_a","ru_p","ru_r","ru_e","ru_l","ru_ya">>, num |-> 4],
    [key |-> <<"ru_a","ru_p","ru_r","ru_e","ru_l","ru_soft">>, num |-> 4],
    [key |-> <<"ru_m","ru_a","ru_ya">>, num |-> 5],
    [key |-> <<"ru_m","ru_a","ru_j">>, num |-> 5],
    [key |-> <<"ru_i","ru_yu","ru_n">>, num |-> 6],
    [key |-> <<"ru_i","ru_yu","ru_n","ru_ya">>, num |-> 6],
    [key |-> <<"ru_i","ru_yu","ru_n","ru_soft">>, num |-> 6],
    [key |-> <<"ru_i","ru_yu","ru_l">>, num |-> 7],
    [key |-> <<"ru_i","ru_yu","ru_l","ru_ya">>, num |-> 7],
    [key |-> <<"ru_i","ru_yu","ru_l","ru_soft">>, num |-> 7],
    [key |-> <<"ru_a","ru_v","ru_g">>, num |-> 8],
    [key |-> <<"ru_a","ru_v","ru_g","ru_u","ru_s","ru_t","ru_a">>, num |-> 8],
    [key |-> <<"ru_a","ru_v","ru_g","ru_u","ru_s","ru_t">>, num |-> 8],
    [key |-> <<"ru_s","ru_e","ru_n">>, num |-> 9],
    [key |-> <<"ru_s","ru_e","ru_n","ru_t","ru_ya","ru_b","ru_r","ru_ya">>, num |-> 9],
    [key |-> <<"ru_s","ru_e","ru_n","ru_t","ru_ya","ru_b","ru_r","ru_soft">>, num |-> 9],
    [key |-> <<"ru_o","ru_k","ru_t">>, num |-> 10],
    [key |-> <<"ru_o","ru_k","ru_t","ru_ya","ru_b","ru_r","ru_ya">>, num |-> 10],
    [key |-> <<"ru_o","ru_k","ru_t","ru_ya","ru_b","ru_r","ru_soft">>, num |-> 10],
    [key |-> <<"ru_n","ru_o","ru_ya">>, num |-> 11],
    [key |-> <<"ru_n","ru_o","ru_ya","ru_b","ru_r","ru_ya">>, num |-> 11],
    [key |-> <<"ru_n","ru_o","ru_ya","ru_b","ru_r","ru_soft">>, num |-> 11],
    [key |-> <<"ru_d","ru_e","ru_k">>, num |-> 12],
    [key |-> <<"ru_d","ru_e","ru_k","ru_a","ru_b","ru_r","ru_ya">>, num |-> 12],
    [key |-> <<"ru_d","ru_e","ru_k","ru_a","ru_b","ru_r","ru_soft">>, num |-> 12]>>

IsLeap(year) == (year % 4 = 0 /\ year % 100 # 0) \/ year % 400 = 0
DaysInMonth(year, month) ==
    IF month \in {4, 6, 9, 11} THEN 30
    ELSE IF month = 2 THEN (IF IsLeap(year) THEN 29 ELSE 28)
    ELSE 31

\* the constructor accepting any day and month
MakeDate_Unchecked(year, month, day) == <<year, month, day>>

\* datetime(year, month, day); None where the constructor raises ValueError
MakeDate(year, month, day) ==
    IF /\ year \in 1..9999
       /\ month \in 1..12
       /\ day \in 1..DaysInMonth(year, month)
    THEN <<year, month, day>>
    ELSE None

\* r'(\d{1,2})[./-](\d{1,2})[./-](\d{4})': the matches <<start, a, b>>,
\* a and b the lengths of the first two groups
DmyMatches(s) ==
    {m \in (1..Len(s)) \X {1, 2} \X {1, 2} :
        /\ AllDigits(s, m[1], m[1] + m[2] - 1)
        /\ IsSepAt(s, m[1] + m[2])
        /\ AllDigits(s, m[1] + m[2] + 1, m[1] + m[2] + m[3])
        /\ IsSepAt(s, m[1] + m[2] + m[3] + 1)
        /\ AllDigits(s, m[1] + m[2] + m[3] + 2, m[1] + m[2] + m[3] + 5)}

\* re.search: the leftmost match
Leftmost(matches) == CHOOSE m \in matches : \A n \in matches : m[1] <= n[1]

\* parser.py:213-214 on the match m: day, month, year = map(int, groups)
DmyDate(s, m) ==
    MakeDate(ToInt(SubSeq(s, m[1] + m[2] + m[3] + 2, m[1] + m[2] + m[3] + 5)),
             ToInt(SubSeq(s, m[1] + m[2] + 1, m[1] + m[2] + m[3])),
             ToInt(SubSeq(s, m[1], m[1] + m[2] - 1)))

\* r'(\d{4})[./-](\d{1,2})[./-](\d{1,2})': the matches <<start, b, c>>,
\* the last group taking two digits when it can
YmdMatches(s) ==
    {m \in (1..Len(s)) \X {1, 2} \X {1, 2} :
        /\ AllDigits(s, m[1], m[1] + 3)
        /\ IsSepAt(s, m[1] + 4)
        /\ AllDigits(s, m[1] + 5, m[1] + 4 + m[2])
        /\ IsSepAt(s, m[1] + 5 + m[2])
        /\ AllDigits(s, m[1] + 6 + m[2], m[1] + 5 + m[2] + m[3])
        /\ (m[3] = 1) => ~AllDigits(s, m[1] + 6 + m[2], m[1] + 7 + m[2])}

\* parser.py:211 and 214 on the match m: year, month, day = map(int, groups)
YmdDate(s, m) ==
    MakeDate(ToInt(SubSeq(s, m[1], m[1] + 3)),
             ToInt(SubSeq(s, m[1] + 5, m[1] + 4 + m[2])),
             ToInt(SubSeq(s, m[1] + 6 + m[2], m[1] + 5 + m[2] + m[3])))

\* the end of the run of characters of the class that starts at from
\* (from - 1 when s[from] is not of the class)
RECURSIVE RunEnd(_, _, _)
RunEnd(s, from, class) ==
    IF from <= Len(s) /\ s[from] \in class THEN RunEnd(s, from + 1, class) ELSE from - 1

\* r'(\d{1,2})\s+([а-яА-Я]+)': the matches <<start, a>>, a the length of
\* the first group
DayMonthMatches(s) ==
    {m \in (1..Len(s)) \X {1, 2} :
        /\ AllDigits(s, m[1], m[1] + m[2] - 1)
        /\ RunEnd(s, m[1] + m[2], Whitespace) >= m[1] + m[2]
        /\ RunEnd(s, RunEnd(s, m[1] + m[2], Whitespace) + 1, DateLetters)
               > RunEnd(s, m[1] + m[2], Whitespace)}

\* group 2 of the match m
MonthGroup(s, m) ==
    SubSeq(s, RunEnd(s, m[1] + m[2], Whitespace) + 1,
              RunEnd(s, RunEnd(s, m[1] + m[2], Whitespace) + 1, DateLetters))

\* parser.py:220-222: the first key of self.months found in month_str
MonthKeys(month_str) == {i \in 1..Len(months) : Contains(month_str, months[i].key)}

\* parser.py:216-222 on the match m; None where datetime raises or no key
\* of self.months is in the month text
DayMonthDate(s, m, current_year) ==
    IF MonthKeys(lower(MonthGroup(s, m))) = {} THEN None
    ELSE MakeDate(current_year,
                  months[SetMin(MonthKeys(lower(MonthGroup(s, m))))].num,
                  ToInt(SubSeq(s, m[1], m[1] + m[2] - 1)))

\* a datetime with tzinfo: the midnight of date with the UTC offset in hours
MakeAware(date, offset) == IF date = None THEN None ELSE date \o <<offset>>
IsAware(date) == Len(date) = 4

\* datetime.fromisoformat (Python 3.11) on the plain calendar forms
\* YYYY-MM-DD and YYYYMMDD, and on the compact form YYYYMMDDT00Z, a midnight
\* in UTC, for which it returns a datetime with tzinfo; None where it raises
\* ValueError
FromIsoFormat(s) ==
    IF Len(s) = 10 /\ AllDigits(s, 1, 4) /\ s[5] = "-" /\ AllDigits(s, 6, 7)
       /\ s[8] = "-" /\ AllDigits(s, 9, 10)
    THEN MakeDate(ToInt(SubSeq(s, 1, 4)), ToInt(SubSeq(s, 6, 7)), ToInt(SubSeq(s, 9, 10)))
    ELSE IF Len(s) = 8 /\ AllDigits(s, 1, 8)
    THEN MakeDate(ToInt(SubSeq(s, 1, 4)), ToInt(SubSeq(s, 5, 6)), ToInt(SubSeq(s, 7, 8)))
    ELSE IF Len(s) = 12 /\ AllDigits(s, 1, 8) /\ SubSeq(s, 9, 12) = <<"T", "0", "0", "Z">>
    THEN MakeAware(MakeDate(ToInt(SubSeq(s, 1, 4)), ToInt(SubSeq(s, 5, 6)),
                            ToInt(SubSeq(s, 7, 8))), 0)
    ELSE None

\* the pattern loop from the fourth pattern on.  The third pattern,
\* r'(\d{1,2})\s+([а-яА-Я]+)\s+(\d{4})', has three groups: a match of it
\* reaches day, month, year = map(int, groups) at parser.py:213, where int()
\* of the month name raises ValueError, and the loop continues; a text it
\* does not match continues as well.
DateFromDayMonth(s, current_year) ==
    IF DayMonthMatches(s) # {} /\ DayMonthDate(s, Leftmost(DayMonthMatches(s)), current_year) # None
    THEN DayMonthDate(s, Leftmost(DayMonthMatches(s)), current_year)
    ELSE FromIsoFormat(s)

DateFromYmd(s, current_year) ==
    IF YmdMatches(s) # {} /\ YmdDate(s, Leftmost(YmdMatches(s))) # None
    THEN YmdDate(s, Leftmost(YmdMatches(s)))
    ELSE DateFromDayMonth(s, current_year)

\* parser.py:195-232; None when no date is resolved
parse_date_string(date_str, current_year) ==
    IF date_str = <<>> THEN None
    ELSE IF DmyMatches(date_str) # {} /\ DmyDate(date_str, Leftmost(DmyMatches(date_str))) # None
    THEN DmyDate(date_str, Leftmost(DmyMatches(date_str)))
    ELSE DateFromYmd(date_str, current_year)

\* str(n) padded with zeros to the width
RECURSIVE ZeroPadded(_, _)
ZeroPadded(n, width) ==
    IF width = 0 THEN <<>>
    ELSE ZeroPadded(n \div 10, width - 1) \o <<DigitChars[(n % 10) + 1]>>

\* strftime("%d.%m.%Y") (the year written with four digits)
strftime_dmy(date) ==
    ZeroPadded(date[3], 2) \o <<".">> \o ZeroPadded(date[2], 2) \o <<".">> \o ZeroPadded(date[1], 4)

\* strftime("%d.%m.%Y") on either C library: the year of a date before the
\* year 1000 is written with four digits by some and without leading zeros
\* by others (glibc); from the year 1000 on both give strftime_dmy
Decimal(n) == IF n < 10 THEN ZeroPadded(n, 1)
              ELSE IF n < 100 THEN ZeroPadded(n, 2)
              ELSE IF n < 1000 THEN ZeroPadded(n, 3)
              ELSE ZeroPadded(n, 4)
strftime_libc(date, year_padded) ==
    IF year_padded THEN strftime_dmy(date)
    ELSE ZeroPadded(date[3], 2) \o <<".">> \o ZeroPadded(date[2], 2) \o <<".">>
         \o Decimal(date[1])

\* the fallback year ignored for the clock's year
DefaultYear_ClockOnly(year_given, current_year, clock_year) == clock_year

\* parser.py:199-200: current_year defaults to datetime.now().year
DefaultYear(year_given, current_year, clock_year) ==
    IF year_given THEN current_year ELSE clock_year

\* datetime comparison a < b for two midnights
DateBefore(a, b) ==
    \/ a[1] < b[1]
    \/ a[1] = b[1] /\ a[2] < b[2]
    \/ a[1] = b[1] /\ a[2] = b[2] /\ a[3] < b[3]

-----------------------------------------------------------------------------
(* EventParser._parse_llm_response (parser.py:181-193) *)
(* The text the model returns is a sequence of tokens: an opening brace, a *)
(* closing brace, a member "key": value of an object, a JSON array, or a   *)
(* stretch of other text.  A value is a string, null or a number.          *)

JString(chars) == [type |-> "string", s |-> chars]
JNull == [type |-> "null", s |-> <<>>]
JNumber == [type |-> "number", s |-> <<>>]

LBrace == [t |-> "{", k |-> "", v |-> JNull]
RBrace == [t |-> "}", k |-> "", v |-> JNull]
Prose == [t |-> "text", k |-> "", v |-> JNull]
JArray == [t |-> "array", k |-> "", v |-> JNull]
Member(key, value) == [t |-> "member", k |-> key, v |-> value]

\* json.loads(text): "object", "array", or "error" (JSONDecodeError)
JsonKind(text) ==
    IF /\ Len(text) >= 2
       /\ text[1] = LBrace
       /\ text[Len(text)] = RBrace
       /\ \A i \in 2..(Len(text) - 1) : text[i].t = "member"
    THEN "object"
    ELSE IF text = <<JArray>> THEN "array"
    ELSE "error"

\* the value json.loads returns for a text that decodes
JsonValue(text) ==
    IF JsonKind(text) = "object"
    THEN [kind |-> "dict", members |-> SubSeq(text, 2, Len(text) - 1)]
    ELSE [kind |-> "list", members |-> <<>>]

EmptyDict == [kind |-> "dict", members |-> <<>>]

\* re.search(r'\{.*\}', response, re.DOTALL): from the first opening brace
\* to the last closing brace after it
BraceMatch(text) ==
    SubSeq(text,
           SetMin({i \in 1..Len(text) : text[i] = LBrace}),
           SetMax({i \in 1..Len(text) : text[i] = RBrace}))

HasBraceMatch(text) ==
    \E i, j \in 1..Len(text) : i < j /\ text[i] = LBrace /\ text[j] = RBrace

parse_llm_response(response) ==
    IF JsonKind(response) # "error" THEN JsonValue(response)
    ELSE IF HasBraceMatch(response) /\ JsonKind(BraceMatch(response)) # "error"
    THEN JsonValue(BraceMatch(response))
    ELSE EmptyDict

-----------------------------------------------------------------------------
(* EventParser.parse (parser.py:234-323) *)

\* the keys of data, parser.py:236-238
DataKeys == {"Year", "Start Date", "End Date", "Event Name", "Event Type",
             "Description", "Participants Count", "Speakers/Organizers",
             "Partners", "Category", "Location", "Source URL", "Parsed Date"}

\* field_mapping, in the order of the dict (parser.py:291-303)
field_mapping == <<"Event Name", "Event Type", "Description", "Start Date", "End Date",
                   "Year", "Location", "Speakers/Organizers", "Partners",
                   "Participants Count", "Category">>

\* parser.py:236-239
EmptyData(url) == [k \in DataKeys |-> IF k = "Source URL" THEN url ELSE <<>>]

\* dict.get(key, ""): the last member of that key
HasKey(details, key) == \E i \in 1..Len(details.members) : details.members[i].k = key
GetValue(details, key) ==
    IF HasKey(details, key)
    THEN details.members[SetMax({i \in 1..Len(details.members) :
                                    details.members[i].k = key})].v
    ELSE JString(<<>>)

\* event_details.get(llm_field, "").strip() raises AttributeError when
\* event_details is not a dict or the value is not a string
GetRaises(details, key) ==
    details.kind # "dict" \/ GetValue(details, key).type # "string"

\* a null value kept as the field's value
RECURSIVE FillFields_NullKept(_, _, _)
FillFields_NullKept(data, details, i) ==
    IF i > Len(field_mapping) THEN [raised |-> FALSE, data |-> data]
    ELSE IF details.kind # "dict" THEN [raised |-> TRUE, data |-> data]
    ELSE IF GetValue(details, field_mapping[i]).type # "string"
    THEN FillFields_NullKept([data EXCEPT ![field_mapping[i]] = None], details, i + 1)
    ELSE FillFields_NullKept([data EXCEPT ![field_mapping[i]] =
                                 strip(GetValue(details, field_mapping[i]).s)],
                             details, i + 1)

\* the loop run over every key of data the model answered, 'Source URL'
\* and 'Parsed Date' included
RECURSIVE FillFields_ModelKeysCopied(_, _, _)
FillFields_ModelKeysCopied(data, details, i) ==
    IF i > Len(field_mapping) + 2 THEN [raised |-> FALSE, data |-> data]
    ELSE LET key == (field_mapping \o <<"Source URL", "Parsed Date">>)[i] IN
        IF GetRaises(details, key) THEN [raised |-> TRUE, data |-> data]
        ELSE IF ~HasKey(details, key)
        THEN FillFields_ModelKeysCopied(data, details, i + 1)
        ELSE FillFields_ModelKeysCopied(
                 [data EXCEPT ![key] = strip(GetValue(details, key).s)], details, i + 1)

\* parser.py:305-307 from the i-th field on; raised when the loop was left
\* by an exception, data then holding the fields set before it
RECURSIVE FillFields(_, _, _)
FillFields(data, details, i) ==
    IF i > Len(field_mapping) THEN [raised |-> FALSE, data |-> data]
    ELSE IF GetRaises(details, field_mapping[i]) THEN [raised |-> TRUE, data |-> data]
    ELSE FillFields([data EXCEPT ![field_mapping[i]] = strip(GetValue(details, field_mapping[i]).s)],
                    details, i + 1)

\* parser.py:311-313
SetStartDate(data, parsed_date) ==
    IF parsed_date = None THEN data
    ELSE [data EXCEPT !["Parsed Date"] = parsed_date,
                      !["Start Date"] = strftime_dmy(parsed_date)]

\* the text of a date that does not resolve blanked
NormalizeStart_TextDropped(data, current_year) ==
    IF data["Start Date"] = <<>> THEN data
    ELSE IF parse_date_string(data["Start Date"], current_year) = None
    THEN [data EXCEPT !["Start Date"] = <<>>]
    ELSE SetStartDate(data, parse_date_string(data["Start Date"], current_year))

\* parser.py:309-313
NormalizeStart(data, current_year) ==
    IF data["Start Date"] = <<>> THEN data
    ELSE SetStartDate(data, parse_date_string(data["Start Date"], current_year))

\* parser.py:317-318
SetEndDate(data, parsed_end) ==
    IF parsed_end = None THEN data
    ELSE [data EXCEPT !["End Date"] = strftime_dmy(parsed_end)]

\* parser.py:315-318
NormalizeEnd(data, current_year) ==
    IF data["End Date"] = <<>> THEN data
    ELSE SetEndDate(data, parse_date_string(data["End Date"], current_year))

\* parser.py:309-318, skipped when the field loop raised
NormalizeDates(filled, current_year) ==
    IF filled.raised THEN filled.data
    ELSE NormalizeEnd(NormalizeStart(filled.data, current_year), current_year)

\* parser.py:286-323: the try around the model call; an exception of the
\* call, of the decoding or of the field loop is swallowed at 320-321
ExtractFields(url, llm, current_year) ==
    IF llm.raises THEN EmptyData(url)
    ELSE NormalizeDates(FillFields(EmptyData(url), parse_llm_response(llm.text), 1),
                        current_year)

\* parse(url) on a page.  page.fetch: get_soup returned a soup or None;
\* page.title: the title found (og:title, twitter:title, title, <title>);
\* page.extract_raises: the extraction of description and content
\* (parser.py:254-257) raises; page.llm: what GET_LLM_ANSWER does.
\* raised: an exception leaves parse; effects: the page request, the
\* validation of the title and the call of the model, in the order made.

\* the model asked whatever the title is
parse_TitleUnchecked(url, page, current_year) ==
    IF page.fetch # "ok"
    THEN [raised |-> FALSE, data |-> EmptyData(url), effects |-> <<"get">>]
    ELSE [raised |-> FALSE,
          data |-> ExtractFields(url, page.llm, current_year),
          effects |-> <<"get", "validate", "llm">>]

parse(url, page, current_year) ==
    IF page.fetch # "ok"
    THEN [raised |-> FALSE, data |-> EmptyData(url), effects |-> <<"get">>]
    ELSE IF ~is_valid_title(page.title)
    THEN [raised |-> FALSE, data |-> EmptyData(url), effects |-> <<"get", "validate">>]
    ELSE IF page.extract_raises
    THEN [raised |-> TRUE, data |-> EmptyData(url), effects |-> <<"get", "validate">>]
    ELSE [raised |-> FALSE,
          data |-> ExtractFields(url, page.llm, current_year),
          effects |-> <<"get", "validate", "llm">>]

-----------------------------------------------------------------------------
(* parse_events and GET_EVENTS (parser.py:325-378) *)

\* parsed_date < today: parsed_date is a midnight, today the clock at the
\* start of parse_events (its date, and whether it is exactly midnight)
EarlierThanToday(parsed_date, t) ==
    \/ DateBefore(parsed_date, t.date)
    \/ parsed_date = t.date /\ ~t.midnight

\* the past-date test left out
Terminal_PastKept(r, t) ==
    IF r.raised THEN "SkippedError"
    ELSE IF r.data["Event Name"] = <<>> \/ ~is_valid_title(r.data["Event Name"])
    THEN "SkippedInvalidTitle"
    ELSE "Accepted"

\* parser.py:343-366: what becomes of the URL parse was called for.
\* parsed_date < today raises TypeError when parsed_date carries tzinfo
\* (today = datetime.now() carries none); the except at 364 counts the URL
\* as skipped.
Terminal(r, t) ==
    IF r.raised THEN "SkippedError"
    ELSE IF r.data["Event Name"] = <<>> \/ ~is_valid_title(r.data["Event Name"])
    THEN "SkippedInvalidTitle"
    ELSE IF r.data["Parsed Date"] # <<>> /\ IsAware(r.data["Parsed Date"])
    THEN "SkippedError"
    ELSE IF r.data["Parsed Date"] # <<>> /\ EarlierThanToday(r.data["Parsed Date"], t)
    THEN "SkippedPastDate"
    ELSE "Accepted"

\* query.split(" ")
RECURSIVE SplitOnSpace(_)
SplitOnSpace(s) ==
    IF " " \notin Range(s) THEN <<s>>
    ELSE <<SubSeq(s, 1, SetMin({i \in 1..Len(s) : s[i] = " "}) - 1)>>
         \o SplitOnSpace(SubSeq(s, SetMin({i \in 1..Len(s) : s[i] = " "}) + 1, Len(s)))

\* "IT-мероприятия в Санкт-Петербурге для "
QueryTemplate ==
    <<"I","T","-","ru_m","ru_e","ru_r","ru_o","ru_p","ru_r","ru_i","ru_ya","ru_t",
      "ru_i","ru_ya"," ","ru_v"," ","RU_S","ru_a","ru_n","ru_k","ru_t","-","RU_P",
      "ru_e","ru_t","ru_e","ru_r","ru_b","ru_u","ru_r","ru_g","ru_e"," ","ru_d","ru_l",
      "ru_ya"," ">>

\* parser.py:372-375
ActQuery(query) ==
    IF Len(SplitOnSpace(query)) < 3 THEN QueryTemplate \o query ELSE query

\* searcher = DuckDuckGoSearch(): a new object, its cache empty (parser.py:18-22, 329)
DuckDuckGoSearch == [cache |-> <<>>, cache_timestamps |-> <<>>]

\* what the call of search leaves in history
HistoryEntry(key, at, end, r) ==
    [key |-> key, at |-> at, end |-> end, posted |-> r.posted,
     stored |-> r.posted /\ ~r.raised, ret |-> r.ret]

\* parser.py:326-340 once search has returned r on the object searcher
EnterLoop(q, td, r) ==
    /\ act_query' = q
    /\ today' = td
    /\ cache' = r.cache
    /\ cache_timestamps' = r.ts
    /\ urls' = r.ret
    /\ pc' = IF r.ret = <<>> THEN "returned" ELSE "loop"
    /\ idx' = 0
    /\ events' = <<>>
    /\ added_count' = 0
    /\ skipped_count' = 0
    /\ steps' = <<>>

\* GET_EVENTS(query) up to the for loop of parse_events, or to the return
\* at parser.py:332-334 when search found nothing
CallGetEvents(query, response, d, td) ==
    /\ pc \in {"idle", "returned"}
    /\ now + d <= MaxTime
    /\ \E searcher \in {DuckDuckGoSearch}, q \in {ActQuery(query)} :
         \E r \in {search(searcher.cache, searcher.cache_timestamps, now, q, response, d)} :
           /\ EnterLoop(q, td, r)
           /\ history' = Append(history,
                                HistoryEntry(generate_cache_key(q), now, now + d, r))
           /\ now' = now + d
    /\ UNCHANGED last
    /\ UNCHANGED varsKey
    /\ UNCHANGED varsBot
    /\ UNCHANGED varsCall

\* an accepted record put in front of the earlier ones
LoopPass_Prepends(url, page, r, term) ==
    /\ events' = IF term = "Accepted" THEN <<r.data>> \o events ELSE events
    /\ added_count' = IF term = "Accepted" THEN added_count + 1 ELSE added_count
    /\ skipped_count' = IF term = "Accepted" THEN skipped_count ELSE skipped_count + 1
    /\ steps' = Append(steps,
                       [url |-> url, page |-> page, data |-> r.data, terminal |-> term,
                        effects |-> IF term = "Accepted"
                                    THEN r.effects \o <<"sleep">> ELSE r.effects])
    /\ idx' = idx + 1
    /\ pc' = IF idx + 1 = Len(urls) THEN "returned" ELSE "loop"

\* the except branch without skipped_count += 1
LoopPass_ErrorUncounted(url, page, r, term) ==
    /\ events' = IF term = "Accepted" THEN Append(events, r.data) ELSE events
    /\ added_count' = IF term = "Accepted" THEN added_count + 1 ELSE added_count
    /\ skipped_count' = IF term \in {"Accepted", "SkippedError"}
                        THEN skipped_count ELSE skipped_count + 1
    /\ steps' = Append(steps,
                       [url |-> url, page |-> page, data |-> r.data, terminal |-> term,
                        effects |-> IF term = "Accepted"
                                    THEN r.effects \o <<"sleep">> ELSE r.effects])
    /\ idx' = idx + 1
    /\ pc' = IF idx + 1 = Len(urls) THEN "returned" ELSE "loop"

\* the loop left at the first URL whose processing raised
LoopPass_ErrorAborts(url, page, r, term) ==
    /\ events' = IF term = "Accepted" THEN Append(events, r.data) ELSE events
    /\ added_count' = IF term = "Accepted" THEN added_count + 1 ELSE added_count
    /\ skipped_count' = IF term = "Accepted" THEN skipped_count ELSE skipped_count + 1
    /\ steps' = Append(steps,
                       [url |-> url, page |-> page, data |-> r.data, terminal |-> term,
                        effects |-> IF term = "Accepted"
                                    THEN r.effects \o <<"sleep">> ELSE r.effects])
    /\ idx' = idx + 1
    /\ pc' = IF idx + 1 = Len(urls) \/ term = "SkippedError" THEN "returned" ELSE "loop"

\* one pass of the for loop (parser.py:342-366) on the page the URL serves;
\* after the last URL parse_events returns tuple(events)
LoopPass(url, page, r, term) ==
    /\ events' = IF term = "Accepted" THEN Append(events, r.data) ELSE events
    /\ added_count' = IF term = "Accepted" THEN added_count + 1 ELSE added_count
    /\ skipped_count' = IF term = "Accepted" THEN skipped_count ELSE skipped_count + 1
    /\ steps' = Append(steps,
                       [url |-> url, page |-> page, data |-> r.data, terminal |-> term,
                        effects |-> IF term = "Accepted"
                                    THEN r.effects \o <<"sleep">> ELSE r.effects])
    /\ idx' = idx + 1
    /\ pc' = IF idx + 1 = Len(urls) THEN "returned" ELSE "loop"

ProcessUrlOn(page) ==
    /\ pc = "loop"
    /\ idx < Len(urls)
    /\ \E r \in {parse(urls[idx + 1], page, today.date[1])} :
           LoopPass(urls[idx + 1], page, r, Terminal(r, today))
    /\ UNCHANGED <<act_query, today, urls, history>>
    /\ UNCHANGED varsCache
    /\ UNCHANGED varsKey
    /\ UNCHANGED varsBot
    /\ UNCHANGED varsCall

-----------------------------------------------------------------------------
(* SpecPipeline: one GET_EVENTS call, the search returning up to           *)
(* MaxCandidates URLs, each URL serving any of the sample pages            *)

MaxCandidates == 3

CandidateUrl(i) == <<"h","t","t","p","s",":","/","/","e",".","r","u","/">> \o <<Digits[i + 1]>>
Candidates(n) == [i \in 1..n |-> CandidateUrl(i)]

\* the clock at the start of parse_events
Today == <<2026, 3, 5>>
Todays == {[date |-> Today, midnight |-> FALSE], [date |-> Today, midnight |-> TRUE]}

Q_one == <<"p","y","t","h","o","n">>
Q_three == <<"p","y","t","h","o","n"," ","d","e","v"," ","m","e","e","t","u","p">>
Q_Three == <<"P","y","t","h","o","n"," "," ","d","e","v"," ","m","e","e","t","u","p">>
Q_trailing == <<"q","a"," "," ">>
PipelineQueries == {Q_one, Q_three}

PipelineResponses ==
    {NetworkError} \cup {Response("ok", Body(Candidates(n), <<>>)) : n \in 0..MaxCandidates}

T_conf == <<"A","I"," ","C","o","n","f"," ","2","0","3","0">>
T_short == <<"a","b">>
N_conf == <<"A","I"," ","C","o","n","f">>
N_short == <<"a","b">>
N_padded == <<" "," ","a","b","c","d"," ">>
D_past == <<"0","4",".","0","3",".","2","0","2","6">>
D_today == <<"0","5",".","0","3",".","2","0","2","6">>
D_future == <<"2","5",".","1","2",".","2","0","3","0">>
D_iso == <<"2","0","3","0","-","1","2","-","2","5">>
D_words == <<"s","o","o","n">>
D_aware == <<"2", "0", "3", "0", "1", "2", "2", "5", "T", "0", "0", "Z">>
D_aware_past == <<"2", "0", "2", "6", "0", "3", "0", "4", "T", "0", "0", "Z">>
D_month == <<"5"," ","ru_m","ru_a","ru_r","ru_t","ru_a"," ","2","0","2","7">>

Object(members) == <<LBrace>> \o members \o <<RBrace>>
Event(name, start) ==
    Object(<<Member("Event Name", JString(name)), Member("Start Date", JString(start))>>)

Llm(raises, text) == [raises |-> raises, text |-> text]
Page(fetch, title, extract_raises, llm) ==
    [fetch |-> fetch, title |-> title, extract_raises |-> extract_raises, llm |-> llm]
Answering(text) == Page("ok", T_conf, FALSE, Llm(FALSE, text))

P_fetch_fail == Page("fail", <<>>, FALSE, Llm(FALSE, <<>>))
P_bad_title == Page("ok", T_short, FALSE, Llm(FALSE, Event(N_conf, D_future)))
P_extract_raises == Page("ok", T_conf, TRUE, Llm(FALSE, Event(N_conf, D_future)))
P_llm_raises == Page("ok", T_conf, FALSE, Llm(TRUE, <<>>))
P_future == Answering(Event(N_conf, D_future))
P_past == Answering(Event(N_conf, D_past))
P_today == Answering(Event(N_conf, D_today))
P_undated == Answering(Event(N_conf, D_words))
P_no_date == Answering(Object(<<Member("Event Name", JString(N_conf)),
                                Member("End Date", JString(D_iso))>>))
P_short_name == Answering(Event(N_short, D_future))
P_padded_name == Answering(Event(N_padded, D_future))
P_null_type == Answering(Object(<<Member("Event Name", JString(N_conf)),
                                  Member("Event Type", JNull),
                                  Member("Start Date", JString(D_past))>>))
P_wrapped == Answering(<<Prose>> \o Event(N_conf, D_future) \o <<Prose>>)
P_prose == Answering(<<Prose>>)
P_array == Answering(<<JArray>>)
P_two_objects == Answering(Event(N_conf, D_future) \o <<Prose>> \o Event(N_conf, D_past))
P_month == Answering(Event(N_conf, D_month))
P_aware == Answering(Event(N_conf, D_aware))
P_aware_past == Answering(Event(N_conf, D_aware_past))
P_short_past == Answering(Event(N_short, D_past))

\* the pages with every shape of model answer
SamplePages ==
    {P_fetch_fail, P_bad_title, P_extract_raises, P_llm_raises, P_future, P_past,
     P_today, P_undated, P_no_date, P_short_name, P_padded_name, P_null_type,
     P_wrapped, P_prose, P_array, P_two_objects, P_month, P_aware, P_aware_past,
     P_short_past}

\* the pages that tell the paths of the loop apart
PipelinePages ==
    {P_fetch_fail, P_bad_title, P_extract_raises, P_llm_raises, P_future, P_past,
     P_today, P_undated, P_short_name, P_padded_name, P_null_type, P_aware,
     P_aware_past, P_short_past}

InitPipeline ==
    /\ ParkedCache
    /\ ParkedKey
    /\ ParkedPipe
    /\ ParkedCall
    /\ ParkedBot

GetEvents ==
    /\ history = <<>>
    /\ \E query \in PipelineQueries, response \in PipelineResponses, td \in Todays :
           CallGetEvents(query, response, 0, td)

ProcessUrl == \E page \in PipelinePages : ProcessUrlOn(page)

NextPipeline == GetEvents \/ ProcessUrl

SpecPipeline == InitPipeline /\ [][NextPipeline]_vars

-----------------------------------------------------------------------------
(* SpecProcess: the GET_EVENTS calls of one process, one after another,    *)
(* with the clock advancing between them                                   *)

MaxRuns == 2

ProcessQueries == {Q_one, Q_three, Q_Three}
ProcessResponses == {NetworkError, Response("ok", Body(Candidates(1), <<>>))}
ProcessPages == {P_fetch_fail, P_future}

InitProcess ==
    /\ ParkedCache
    /\ ParkedKey
    /\ ParkedPipe
    /\ ParkedCall
    /\ ParkedBot

GetEventsAgain ==
    /\ Len(history) < MaxRuns
    /\ \E query \in ProcessQueries, response \in ProcessResponses, d \in 0..1 :
           CallGetEvents(query, response, d, [date |-> Today, midnight |-> FALSE])

ProcessUrlAgain == \E page \in ProcessPages : ProcessUrlOn(page)

BetweenCalls ==
    /\ pc \in {"idle", "returned"}
    /\ Tick

NextProcess == GetEventsAgain \/ ProcessUrlAgain \/ BetweenCalls

SpecProcess == InitProcess /\ [][NextProcess]_vars

-----------------------------------------------------------------------------
(* Claims about the pipeline *)

\* the URL processed i-th has a record in events
HasRecord(i) == \E j \in 1..Len(events) : events[j]["Source URL"] = steps[i].url

\* the fetch of the i-th URL succeeded, its page title passes the validator,
\* the Event Name of the record parse built from the model's answer passes
\* the validator, and the start date is unresolved or not earlier than today
Qualifies(i) ==
    /\ steps[i].page.fetch = "ok"
    /\ is_valid_title(steps[i].page.title)
    /\ is_valid_title(steps[i].data["Event Name"])
    /\ \/ steps[i].data["Parsed Date"] = <<>>
       \/ ~EarlierThanToday(steps[i].data["Parsed Date"], today)

\* the three URLs served [invalid title, a valid future event, a failing fetch]
ScenarioABC ==
    /\ pc = "returned"
    /\ Len(steps) = 3
    /\ steps[1].page = P_bad_title
    /\ steps[2].page = P_future
    /\ steps[3].page = P_fetch_fail

\* C1 (as stated): the collection parse_events builds holds a record for a candidate
\* URL exactly when its fetch succeeded, its page title and the Event Name
\* taken from the model both pass the title validator, and its start date is
\* unresolved or not earlier than the clock read at the start; every URL is
\* processed when parse_events returns, and for the URLs [invalid title,
\* valid future event, failing fetch] the result is the one record of the
\* second URL.
C1_RecordIffQualified ==
    /\ \A i \in 1..Len(steps) : HasRecord(i) <=> Qualifies(i)
    /\ Len(events) = Cardinality({i \in 1..Len(steps) : Qualifies(i)})
    /\ pc = "returned" => Len(steps) = Len(urls)
    /\ \A i \in 1..Len(steps) : steps[i].url = urls[i]
    /\ ScenarioABC => events = <<steps[2].data>> /\ steps[2].url = CandidateUrl(2)

C1_Witness ==
    /\ ScenarioABC
    /\ Len(events) = 1
    /\ events[1]["Source URL"] = CandidateUrl(2)
    /\ events[1]["Parsed Date"] = <<2030, 12, 25>>

\* C3 (as stated): a GET_EVENTS call whose normalized query equals that of
\* an earlier call of the process, made less than cache_ttl after the
\* earlier call stored its URL list, issues no search POST.
C3_LaterInvocationServedFromCache ==
    \A i, j \in 1..Len(history) :
        ( /\ i < j
          /\ history[i].key = history[j].key
          /\ history[i].stored
          /\ history[j].at - history[i].end < cache_ttl )
        => ~history[j].posted

-----------------------------------------------------------------------------
(* SpecClean: _clean_url applied to an href, and again to what it returned *)

\* a result URL whose query names a redirect wrapper
H_forward == <<"h","t","t","p","s",":","/","/","c","o","n","f",".","r","u","/","r","?","t","o","=","/","/","d","u","c","k","d","u","c","k","g","o",".","c","o","m","/","l","/","?","u","d","d","g","=","h","t","t","p","s","%","3","A","%","2","F","%","2","F","m","e","e","t",".","s","u">>
H_mention == <<"h","t","t","p","s",":","/","/","c","o","n","f",".","r","u","/","?","f","r","o","m","=","d","u","c","k","d","u","c","k","g","o",".","c","o","m","/","l","/","?","u","d","d","g","=","a","b","c">>
H_escaped == <<"h","t","t","p","s",":","/","/","c","o","n","f",".","r","u","/","a","%","2","0","b">>

\* urllib.parse.quote(s, safe=''), on the characters of the table of unquote
RECURSIVE Quote(_)
Quote(s) ==
    IF s = <<>> THEN <<>>
    ELSE IF \E i \in 1..Len(HexChars) : HexChars[i] = Head(s)
         THEN <<"%">> \o HexPairs[CHOOSE i \in 1..Len(HexChars) : HexChars[i] = Head(s)]
              \o Quote(Tail(s))
         ELSE <<Head(s)>> \o Quote(Tail(s))

\* the href the search page gives for a result: the redirect wrapper around
\* the percent-encoded target
Wrapped(target) ==
    <<"/", "/">> \o S_wrapper \o Quote(target) \o <<"&", "r", "u", "t", "=", "1">>
Padded(href) == <<" ">> \o href \o <<"\t">>

CleanTargets == Hrefs \cup {H_org, H_forward, H_mention, H_escaped}
CleanInputs ==
    CleanTargets \cup {Wrapped(t) : t \in CleanTargets} \cup {Padded(t) : t \in CleanTargets}

InitClean ==
    /\ call \in {[fn |-> "_clean_url", raw_url |-> h] : h \in CleanInputs}
    /\ rets = <<>>
    /\ ParkedCache
    /\ ParkedKey
    /\ ParkedPipe
    /\ ParkedBot

\* _clean_url(raw_url)
CleanUrl ==
    /\ call.fn = "_clean_url"
    /\ rets = <<>>
    /\ rets' = <<clean_url(call.raw_url)>>
    /\ UNCHANGED call
    /\ UNCHANGED <<varsCache, varsKey, varsPipe, varsBot>>

\* _clean_url on the URL the first call returned
CleanAgain ==
    /\ call.fn = "_clean_url"
    /\ Len(rets) = 1
    /\ rets[1] # None
    /\ rets' = Append(rets, clean_url(rets[1]))
    /\ UNCHANGED call
    /\ UNCHANGED <<varsCache, varsKey, varsPipe, varsBot>>

NextClean == CleanUrl \/ CleanAgain

SpecClean == InitClean /\ [][NextClean]_vars

\* C11: URL cleaning is idempotent: when _clean_url returns a URL u for an
\* href, _clean_url(u) returns u; and the URL returned for a redirect-wrapped
\* href is the unwrapped, URL-decoded target.
C11_CleanUrlIdempotent ==
    /\ Len(rets) = 2 => rets[2] = rets[1]
    /\ \A t \in CleanTargets :
           (Len(rets) >= 1 /\ call.raw_url = Wrapped(t) /\ rets[1] # None) =>
               rets[1] = strip(t)

-----------------------------------------------------------------------------
(* SpecTitle: _is_valid_title applied to every short title over a Latin    *)
(* letter, a Cyrillic letter, a digit and the two mojibake characters, and *)
(* to some titles of pages                                                 *)

TitleAlphabet == {"a", "ru_k", "1", "U+00D0", "U+00D1"}
T_empty == <<>>
T_ab == <<"a","b">>
T_conference == <<"RU_K","ru_o","ru_n","ru_f","ru_e","ru_r","ru_e","ru_n","ru_c","ru_i","ru_ya"," ","ru_p","ru_o"," ","A","I">>
T_mojibake == <<"U+00D0", "U+00D1", "U+00D0", "U+00D1", "U+00D0">>
T_digits == <<"2","0","3","0","-","1","2","-","2","5"," ","1","8",":","0","0">>
Titles ==
    UNION {[1..n -> TitleAlphabet] : n \in 0..MaxTitleLen}
    \cup {T_empty, T_ab, T_conference, T_mojibake, T_digits, T_conf, T_short}

InitTitle ==
    /\ call \in {[fn |-> "_is_valid_title", title |-> t] : t \in Titles}
    /\ rets = <<>>
    /\ ParkedCache
    /\ ParkedKey
    /\ ParkedPipe
    /\ ParkedBot

\* _is_valid_title(title)
ValidateTitle ==
    /\ call.fn = "_is_valid_title"
    /\ rets = <<>>
    /\ rets' = <<is_valid_title(call.title)>>
    /\ UNCHANGED call
    /\ UNCHANGED <<varsCache, varsKey, varsPipe, varsBot>>

NextTitle == ValidateTitle

SpecTitle == InitTitle /\ [][NextTitle]_vars

\* a letter of а-я, А-Я, ё, Ё or of a-z, A-Z occurs in t
HasLetter(t) ==
    \E i \in 1..Len(t) : t[i] \in CyrillicLetters \/ t[i] \in LatinLetters
\* three consecutive characters of t are mojibake characters
HasMojibakeRun(t) ==
    \E i \in 1..Len(t) :
        i + 2 <= Len(t) /\ {t[i], t[i + 1], t[i + 2]} \subseteq {"U+00D0", "U+00D1"}

\* C12: _is_valid_title(t) is false exactly when t is empty or shorter
\* than 5 characters, or has no Cyrillic and no Latin letter, or holds a run
\* of 3 or more mojibake characters, and true for every other text: "ab" and
\* the empty text are invalid, the Cyrillic conference title is valid, five
\* mojibake characters are invalid.
C12_TitleValidator ==
    rets # <<>> =>
        /\ rets[1] = ~(Len(call.title) < 5 \/ ~HasLetter(call.title)
                       \/ HasMojibakeRun(call.title))
        /\ call.title \in {T_empty, T_ab, T_mojibake} => rets[1] = FALSE
        /\ call.title = T_conference => rets[1] = TRUE

\* a title of letters long enough, rejected for its mojibake run
C12_Witness ==
    /\ rets = <<FALSE>>
    /\ Len(call.title) >= 5
    /\ HasLetter(call.title)
    /\ HasMojibakeRun(call.title)

-----------------------------------------------------------------------------
(* Claims about the calls of the language model, checked under SpecPipeline *)

\* how often the model was called for the URL processed i-th
LlmCalls(i) ==
    Cardinality({k \in 1..Len(steps[i].effects) : steps[i].effects[k] = "llm"})

\* the page of the i-th URL was fetched and its title passes the validator
TitlePasses(i) ==
    steps[i].page.fetch = "ok" /\ is_valid_title(steps[i].page.title)

-----------------------------------------------------------------------------
(* SpecResponse: _parse_llm_response applied to every short model response *)

M_name == Member("Event Name", JString(N_conf))
M_start == Member("Start Date", JString(D_future))
ResponseTokens == {LBrace, RBrace, Prose, JArray, M_name, M_start}
ResponseTexts == UNION {[1..n -> ResponseTokens] : n \in 0..MaxTokens}

InitResponse ==
    /\ call \in {[fn |-> "_parse_llm_response", response |-> t] : t \in ResponseTexts}
    /\ rets = <<>>
    /\ ParkedCache
    /\ ParkedKey
    /\ ParkedPipe
    /\ ParkedBot

\* _parse_llm_response(response)
ParseResponse ==
    /\ call.fn = "_parse_llm_response"
    /\ rets = <<>>
    /\ rets' = <<parse_llm_response(call.response)>>
    /\ UNCHANGED call
    /\ UNCHANGED <<varsCache, varsKey, varsPipe, varsBot>>

NextResponse == ParseResponse

SpecResponse == InitResponse /\ [][NextResponse]_vars

\* the brace-delimited substrings of a text that decode as JSON
DecodableSpans(text) ==
    {sp \in (1..Len(text)) \X (1..Len(text)) :
        /\ sp[1] < sp[2]
        /\ text[sp[1]] = LBrace
        /\ text[sp[2]] = RBrace
        /\ JsonKind(SubSeq(text, sp[1], sp[2])) = "object"}

\* the first of them: the one that starts first
FirstSpan(text) ==
    CHOOSE sp \in DecodableSpans(text) :
        \A other \in DecodableSpans(text) :
            sp[1] < other[1] \/ (sp[1] = other[1] /\ sp[2] <= other[2])

\* C14: when the whole response is valid JSON the decoded value is
\* returned; otherwise, when the response holds a brace-delimited substring
\* that decodes as JSON, the object of the first such substring is returned,
\* whatever text or braces follow it; otherwise the empty field set.
C14_FirstDecodableSubstringReturned ==
    rets # <<>> =>
        IF JsonKind(call.response) # "error"
        THEN rets[1] = JsonValue(call.response)
        ELSE IF DecodableSpans(call.response) # {}
        THEN rets[1] = JsonValue(SubSeq(call.response,
                                        FirstSpan(call.response)[1],
                                        FirstSpan(call.response)[2]))
        ELSE rets[1] = EmptyDict

-----------------------------------------------------------------------------
(* Claims about the record parse returns, checked under SpecPipeline *)

\* the model was asked about the i-th URL and the field-extraction step met
\* an error: the call raised, the response decoded to something that is not
\* an object, or the value of one of the eleven fields is not text
ExtractionError(i) ==
    /\ LlmCalls(i) = 1
    /\ \/ steps[i].page.llm.raises
       \/ parse_llm_response(steps[i].page.llm.text).kind # "dict"
       \/ \E k \in 1..Len(field_mapping) :
              GetValue(parse_llm_response(steps[i].page.llm.text),
                       field_mapping[k]).type # "string"

\* C15: when the field-extraction step for a URL meets an internal error,
\* nothing is raised to the orchestrator and the eleven fields taken from
\* the model are all empty in the record, never partly filled.
C15_ErrorGivesEmptyFields ==
    \A i \in 1..Len(steps) :
        ExtractionError(i) =>
            /\ steps[i].terminal # "SkippedError"
            /\ \A k \in 1..Len(field_mapping) : steps[i].data[field_mapping[k]] = <<>>

-----------------------------------------------------------------------------
(* SpecParse: parse applied to a page with a valid title whose model       *)
(* answer is any JSON object of up to MaxMembers members, or one of the    *)
(* sample pages                                                            *)

D_end == <<"2","6","/","1","2","/","2","0","3","0">>
D_end_words == <<"T","B","A">>
M_name_padded == Member("Event Name", JString(N_padded))
M_name_null == Member("Event Name", JNull)
M_type_null == Member("Event Type", JNull)
M_year_number == Member("Year", JNumber)
M_start_past == Member("Start Date", JString(D_past))
M_start_words == Member("Start Date", JString(D_words))
M_start_month == Member("Start Date", JString(D_month))
M_end == Member("End Date", JString(D_end))
M_end_words == Member("End Date", JString(D_end_words))
M_source == Member("Source URL", JString(N_short))
M_parsed == Member("Parsed Date", JString(D_past))

ObjectMembers ==
    {M_name, M_name_padded, M_name_null, M_type_null, M_year_number, M_start,
     M_start_words, M_start_month, M_end, M_end_words, M_source, M_parsed}
Objects == UNION {[1..n -> ObjectMembers] : n \in 0..MaxMembers}
ParsePages == SamplePages \cup {Answering(Object(m)) : m \in Objects}
CurrentYear == 2026

InitParse ==
    /\ call \in {[fn |-> "parse", url |-> CandidateUrl(1), page |-> pg] : pg \in ParsePages}
    /\ rets = <<>>
    /\ ParkedCache
    /\ ParkedKey
    /\ ParkedPipe
    /\ ParkedBot

\* parse(url)
Parse ==
    /\ call.fn = "parse"
    /\ rets = <<>>
    /\ rets' = <<parse(call.url, call.page, CurrentYear)>>
    /\ UNCHANGED call
    /\ UNCHANGED <<varsCache, varsKey, varsPipe, varsBot>>

NextParse == Parse

SpecParse == InitParse /\ [][NextParse]_vars

\* parse has returned a record
Returned == rets # <<>> /\ ~rets[1].raised

\* v is a text (possibly empty), not None
IsText(v) == v # None /\ DOMAIN v = 1..Len(v)

\* C16: every record parse returns holds all thirteen fields and none is
\* null: each of the twelve textual fields is a text, possibly empty,
\* whatever the model response, with keys missing or values null.
C16_AllFieldsPresentAndText ==
    Returned =>
        /\ DOMAIN rets[1].data = DataKeys
        /\ Cardinality(DataKeys) = 13
        /\ \A k \in DataKeys \ {"Parsed Date"} : IsText(rets[1].data[k])
        /\ rets[1].data["Parsed Date"] # None

\* a response with a null value and missing keys
C16_Witness ==
    /\ Returned
    /\ call.page = Answering(Object(<<M_name, M_type_null>>))
    /\ rets[1].data["Event Name"] = N_conf
    /\ rets[1].data["Event Type"] = <<>>
    /\ rets[1].data["Location"] = <<>>

-----------------------------------------------------------------------------
(* SpecDate: _parse_date_string applied to a date text written in one of   *)
(* the forms the patterns name, or to a text that is no date, with and     *)
(* without a fallback year; a resolved date is then written back with      *)
(* strftime("%d.%m.%Y")                                                    *)

DateYears == {999, 2024, 2027}
FallbackYears == {2025, 2028}
ClockYear == 2026

\* how a date is written
Dmy(d, m, y) == ZeroPadded(d, 2) \o <<".">> \o ZeroPadded(m, 2) \o <<".">> \o ZeroPadded(y, 4)
Ymd(y, m, d) == ZeroPadded(y, 4) \o <<"-">> \o ZeroPadded(m, 2) \o <<"-">> \o ZeroPadded(d, 2)
DayMonth(d, k) == Decimal(d) \o <<" ">> \o months[k].key
DayMonthYear(d, k, y) == DayMonth(d, k) \o <<" ">> \o ZeroPadded(y, 4)

Form(kind, d, m, y, text) == [kind |-> kind, day |-> d, month |-> m, year |-> y, text |-> text]

NoDates == {<<>>, <<"n","o","t"," ","a"," ","d","a","t","e">>,
            <<"s","o","o","n">>,
            <<"T","B","A">>,
            <<"2","0","3","0">>,
            <<"2","5",".","1","2">>,
            <<"1","2","/","2","0","3","0">>,
            <<"3","2"," ","ru_m","ru_a","ru_r","ru_t","ru_a">>,
            <<"ru_m","ru_a","ru_r","ru_t","ru_a"," ","5">>,
            <<"3","1",".","0","2",".","2","0","2","5">>,
            <<"2","9",".","0","2",".","2","0","2","7">>,
            <<"0","0",".","0","1",".","2","0","2","7">>,
            <<"1","5",".","1","3",".","2","0","2","7">>}

DateForms ==
    {Form("dmy", d, m, y, Dmy(d, m, y)) : d \in 1..31, m \in 1..12, y \in DateYears}
    \cup {Form("ymd", d, m, y, Ymd(y, m, d)) : d \in {1, 29, 31}, m \in {2, 12}, y \in DateYears}
    \cup {Form("day_month", d, months[k].num, 0, DayMonth(d, k)) :
              d \in {5, 29, 31}, k \in 1..Len(months)}
    \cup {Form("day_month_year", d, months[k].num, y, DayMonthYear(d, k, y)) :
              d \in {5, 29}, k \in 1..Len(months), y \in {2024, 2027}}
    \cup {Form("day_month", 5, 3, 0, <<"5"," ","RU_M","ru_a","ru_r","ru_t","ru_a">>)}
    \cup {Form("none", 0, 0, 0, t) : t \in NoDates}

InitDate ==
    /\ call \in {[fn |-> "_parse_date_string", form |-> f, year_given |-> g,
                  current_year |-> y] :
                     f \in DateForms, g \in BOOLEAN, y \in FallbackYears}
    /\ rets = <<>>
    /\ ParkedCache
    /\ ParkedKey
    /\ ParkedPipe
    /\ ParkedBot

\* _parse_date_string(date_str, current_year) or _parse_date_string(date_str)
ParseDate ==
    /\ call.fn = "_parse_date_string"
    /\ rets = <<>>
    /\ rets' = <<parse_date_string(call.form.text,
                                   DefaultYear(call.year_given, call.current_year, ClockYear))>>
    /\ UNCHANGED call
    /\ UNCHANGED <<varsCache, varsKey, varsPipe, varsBot>>

\* parsed_date.strftime("%d.%m.%Y") on the date resolved (parser.py:313, 318)
Reserialize ==
    /\ call.fn = "_parse_date_string"
    /\ Len(rets) = 1
    /\ rets[1] # None
    /\ \E year_padded \in BOOLEAN :
           rets' = Append(rets, strftime_libc(rets[1], year_padded))
    /\ UNCHANGED call
    /\ UNCHANGED <<varsCache, varsKey, varsPipe, varsBot>>

NextDate == ParseDate \/ Reserialize

SpecDate == InitDate /\ [][NextDate]_vars

\* the day, month and year of a form make a date of the calendar
OnCalendar(d, m, y) == y \in 1..9999 /\ m \in 1..12 /\ d \in 1..DaysInMonth(y, m)

\* the year a text without a year is resolved in
YearUsed == IF call.year_given THEN call.current_year ELSE ClockYear

\* C17 (as stated): a text "day, Cyrillic month name, four-digit year"
\* resolves to that day and month in the year written in the text,
\* whatever the fallback year.
C17_MonthNameWithYearKeepsYear ==
    ( /\ rets # <<>>
      /\ call.form.kind = "day_month_year"
      /\ OnCalendar(call.form.day, call.form.month, call.form.year) ) =>
        rets[1] = <<call.form.year, call.form.month, call.form.day>>

\* the text t has the form DD.MM.YYYY
IsDdMmYyyy(t) ==
    /\ Len(t) = 10
    /\ \A i \in {1, 2, 4, 5, 7, 8, 9, 10} : IsDigit(t[i])
    /\ t[3] = "." /\ t[6] = "."

\* C18 (as stated): a valid calendar date written as DD.MM.YYYY resolves
\* to that date, writing the result back gives the same text, and whatever
\* pattern resolved a text the text written back has the form DD.MM.YYYY.
C18_DateRoundTrip ==
    /\ ( /\ rets # <<>>
         /\ call.form.kind = "dmy"
         /\ OnCalendar(call.form.day, call.form.month, call.form.year) ) =>
           /\ rets[1] = <<call.form.year, call.form.month, call.form.day>>
           /\ Len(rets) = 2 => rets[2] = call.form.text
    /\ Len(rets) = 2 => IsDdMmYyyy(rets[2])

\* C19: a text with a day and a Cyrillic month name, full or abbreviated,
\* and no year resolves to that day and month in the fallback year, and in
\* the current year when no fallback year is given.
C19_MonthNameWithoutYear ==
    ( /\ rets # <<>>
      /\ call.form.kind = "day_month"
      /\ OnCalendar(call.form.day, call.form.month, YearUsed) ) =>
        rets[1] = <<YearUsed, call.form.month, call.form.day>>

\* an abbreviated month name without a fallback year, and a full one with it
C19_Witness ==
    /\ rets # <<>>
    /\ \/ /\ call.form.text = <<"5"," ","ru_m","ru_a","ru_r">>
          /\ ~call.year_given
          /\ rets[1] = <<ClockYear, 3, 5>>
       \/ /\ call.form.text = <<"2","9"," ","ru_d","ru_e","ru_k","ru_a","ru_b","ru_r","ru_ya">>
          /\ call.year_given
          /\ call.current_year = 2028
          /\ rets[1] = <<2028, 12, 29>>

\* C20: a text for which no pattern and no ISO parse succeeds (a text that
\* is no date, the empty text, digits that form no date of the calendar)
\* makes _parse_date_string return None; the call always returns, with None
\* or with a date of the calendar.
C20_UnparseableGivesNone ==
    rets # <<>> =>
        /\ call.form.kind = "none" => rets[1] = None
        /\ ( /\ call.form.kind = "dmy"
             /\ ~OnCalendar(call.form.day, call.form.month, call.form.year) ) =>
               rets[1] = None
        /\ rets[1] # None => OnCalendar(rets[1][3], rets[1][2], rets[1][1])

\* the 31st of February
C20_Witness ==
    /\ call.form.text = <<"3","1",".","0","2",".","2","0","2","5">>
    /\ rets = <<None>>

-----------------------------------------------------------------------------
(* Claims about the dates of a record and the freshness filter, checked    *)
(* under SpecPipeline                                                      *)

\* the fields the loop at parser.py:305-307 set for the i-th URL, before
\* the dates are normalized
Extracted(i) ==
    FillFields(EmptyData(steps[i].url),
               parse_llm_response(steps[i].page.llm.text), 1).data

\* the i-th URL has a valid page title, the model answered, and the record
\* holds a valid Event Name taken from the answer
NamedByModel(i) ==
    /\ TitlePasses(i)
    /\ LlmCalls(i) = 1
    /\ ~steps[i].page.llm.raises
    /\ is_valid_title(steps[i].data["Event Name"])

\* the Start Date text of the i-th URL's record does not resolve
StartUnresolved(i) ==
    parse_date_string(Extracted(i)["Start Date"], today.date[1]) = None

C22_TodayOrLaterIncluded ==
    \A i \in 1..Len(steps) :
        ( /\ TitlePasses(i)
          /\ is_valid_title(steps[i].data["Event Name"])
          /\ steps[i].data["Parsed Date"] # <<>>
          /\ ~DateBefore(steps[i].data["Parsed Date"], today.date) )
        => (steps[i].terminal = "Accepted" /\ HasRecord(i))

\* the record built for the i-th URL has a Parsed Date earlier than the
\* clock read at the start of parse_events
DatedBeforeNow(i) ==
    /\ steps[i].data["Parsed Date"] # <<>>
    /\ EarlierThanToday(steps[i].data["Parsed Date"], today)

\* no record of the collection has a Parsed Date earlier than the clock read
NoPastRecord ==
    \A j \in 1..Len(events) :
        \/ events[j]["Parsed Date"] = <<>>
        \/ ~EarlierThanToday(events[j]["Parsed Date"], today)

-----------------------------------------------------------------------------
(* Claims about the loop of parse_events, checked under SpecPipeline *)

\* processing the i-th URL raised: parse raised, or the comparison of an
\* aware Parsed Date with today did
Raises(i) ==
    /\ TitlePasses(i)
    /\ \/ steps[i].page.extract_raises
       \/ /\ is_valid_title(steps[i].data["Event Name"])
          /\ steps[i].data["Parsed Date"] # <<>>
          /\ IsAware(steps[i].data["Parsed Date"])

\* the records of the accepted URLs among the first n processed, in order
RECURSIVE AcceptedUpTo(_)
AcceptedUpTo(n) ==
    IF n = 0 THEN <<>>
    ELSE IF steps[n].terminal = "Accepted"
    THEN Append(AcceptedUpTo(n - 1), steps[n].data)
    ELSE AcceptedUpTo(n - 1)

\* how many of the first n processed URLs were not accepted
SkippedUpTo(n) == Cardinality({k \in 1..n : steps[k].terminal # "Accepted"})

\* C24: an exception raised while candidate URL number i is processed is
\* caught and the URL counted as skipped; the loop goes on with the next
\* URL, so that every URL of the list is processed, in order, when
\* parse_events returns; the records accepted before i stay in the result.
C24_BadPageNeverAborts ==
    \A i \in 1..Len(steps) :
        Raises(i) =>
            /\ steps[i].terminal = "SkippedError"
            /\ ~HasRecord(i)
            /\ skipped_count = SkippedUpTo(Len(steps))
            /\ skipped_count >= 1
            /\ (Len(steps) = i /\ i < Len(urls)) => pc = "loop"
            /\ pc = "returned" => Len(steps) = Len(urls)
            /\ \A k \in 1..Len(steps) : steps[k].url = urls[k]
            /\ Len(events) >= Len(AcceptedUpTo(i - 1))
            /\ SubSeq(events, 1, Len(AcceptedUpTo(i - 1))) = AcceptedUpTo(i - 1)
            /\ events = AcceptedUpTo(Len(steps))

\* a finished run of three URLs whose second raised: the first and the third
\* are in the result
C24_Witness ==
    /\ pc = "returned"
    /\ Len(steps) = 3
    /\ steps[1].page = P_future
    /\ steps[2].page = P_extract_raises
    /\ Raises(2)
    /\ steps[3].page = P_future
    /\ events = <<steps[1].data, steps[3].data>>
    /\ skipped_count = 1

\* the positions in the candidate list of the records of events, in order
SourceIndex(j) ==
    CHOOSE k \in 1..Len(urls) : urls[k] = events[j]["Source URL"]

\* C25: the collection lists the accepted records in the order their URLs
\* were processed: it is an order-preserving selection from the candidate
\* URL list, with at most one record per candidate URL.
C25_OrderPreservingSelection ==
    /\ \A j \in 1..Len(events) :
           \E k \in 1..Len(steps) :
               /\ steps[k].url = urls[k]
               /\ steps[k].terminal = "Accepted"
               /\ events[j] = steps[k].data
               /\ events[j]["Source URL"] = urls[k]
    /\ \A j1, j2 \in 1..Len(events) :
           j1 < j2 => SourceIndex(j1) < SourceIndex(j2)
    /\ \A k \in 1..Len(urls) :
           Cardinality({j \in 1..Len(events) : events[j]["Source URL"] = urls[k]}) <= 1
    /\ \A k1, k2 \in 1..Len(urls) : urls[k1] = urls[k2] => k1 = k2

\* a finished run kept the first and the third of three URLs, in that order
C25_Witness ==
    /\ pc = "returned"
    /\ Len(urls) = 3
    /\ Len(events) = 2
    /\ steps[2].terminal = "SkippedPastDate"
    /\ events[1]["Source URL"] = urls[1]
    /\ events[2]["Source URL"] = urls[3]
    /\ SourceIndex(1) = 1
    /\ SourceIndex(2) = 3

-----------------------------------------------------------------------------
(* SpecQuery: GET_EVENTS on every query of letters and spaces up to        *)
(* MaxWordsLen characters; rets holds the query handed to parse_events     *)

MaxWordsLen == 6

QueryAlphabet == {"a", " "}
SpacedQueries ==
    UNION {[1..n -> QueryAlphabet] : n \in 0..MaxWordsLen} \cup {Q_one, Q_three, Q_trailing}

InitQuery ==
    /\ call \in {[fn |-> "GET_EVENTS", query |-> q] : q \in SpacedQueries}
    /\ rets = <<>>
    /\ ParkedCache
    /\ ParkedKey
    /\ ParkedPipe
    /\ ParkedBot

\* parser.py:371-376: the query parse_events is called with
HandQuery ==
    /\ call.fn = "GET_EVENTS"
    /\ rets = <<>>
    /\ rets' = <<ActQuery(call.query)>>
    /\ UNCHANGED call
    /\ UNCHANGED <<varsCache, varsKey, varsPipe, varsBot>>

NextQuery == HandQuery

SpecQuery == InitQuery /\ [][NextQuery]_vars

\* the number of words of s: the maximal runs of characters other than space
WordCount(s) ==
    Cardinality({i \in 1..Len(s) : s[i] # " " /\ (i = 1 \/ s[i - 1] = " ")})

\* C26 (as stated): GET_EVENTS hands the pipeline the query prefixed with
\* the template exactly when the query has fewer than 3 words, and the
\* unchanged query otherwise, also for queries with repeated, leading or
\* trailing spaces.
C26_TemplateIffFewerThanThreeWords ==
    rets # <<>> =>
        /\ WordCount(call.query) < 3 => rets[1] = QueryTemplate \o call.query
        /\ WordCount(call.query) >= 3 => rets[1] = call.query

-----------------------------------------------------------------------------
(* Claims about the pacing and the counters of the loop, checked under     *)
(* SpecPipeline                                                            *)

\* the fixed delay was made after the i-th URL was processed
Slept(i) == \E k \in 1..Len(steps[i].effects) : steps[i].effects[k] = "sleep"

\* C27 (as stated): between the processing of two consecutive candidate
\* URLs the fixed delay occurs, whether the earlier URL was accepted or
\* rejected for an invalid title or a past date.
C27_DelayBetweenConsecutiveUrls ==
    \A i \in 1..Len(steps) :
        ( /\ i < Len(urls)
          /\ steps[i].page.fetch = "ok"
          /\ steps[i].terminal \in {"Accepted", "SkippedInvalidTitle", "SkippedPastDate"} )
        => Slept(i)

-----------------------------------------------------------------------------
(* Claims about the dates of the record parse returns, checked under       *)
(* SpecParse                                                               *)

\* C28 (as stated): in every record parse returns, a non-empty Parsed
\* Date implies that Start Date is the DD.MM.YYYY form of Parsed Date, and
\* an End Date that resolves is written in the form DD.MM.YYYY, whether or
\* not Start Date is empty or resolves.
C28_DatesNormalizedIndependently ==
    Returned =>
        /\ rets[1].data["Parsed Date"] # <<>> =>
               rets[1].data["Start Date"] = strftime_dmy(rets[1].data["Parsed Date"])
        /\ parse_date_string(rets[1].data["End Date"], CurrentYear) # None =>
               rets[1].data["End Date"] =
                   strftime_dmy(parse_date_string(rets[1].data["End Date"], CurrentYear))

-----------------------------------------------------------------------------
(* SpecThreads: search called from several threads on one DuckDuckGoSearch *)
(* object (GET_EVENTS runs in asyncio.to_thread, main.py:593).  A step is  *)
(* one access to self.cache or self.cache_timestamps, the accesses of the  *)
(* callers interleaving in every order; call[t] is where caller t stands   *)
(* and what it holds in its local variables, rets the calls returned.      *)

MaxCalls == 3

Callers == {"thread_1", "thread_2"}
ThreadQueries == {Q_ai, Q_AI, Q_ml}
ThreadResponses ==
    {NetworkError, Response("ok", Body(<<U_a>>, <<>>)), Response("ok", Body(<<U_b>>, <<>>))}

Idle == [pc |-> "idle", key |-> <<>>, found |-> <<>>, age |-> 0, seq |-> 0]
InFlight == {t \in Callers : call[t].pc # "idle"}

\* what a returning call leaves in rets: for a hit, the age its test found
\* (-1 for a key without a timestamp), and whether the key has a timestamp
\* at the return
Return(t, hit, stored, list) ==
    /\ rets' = Append(rets, [key |-> call[t].key, hit |-> hit,
                             stored |-> stored, ret |-> list,
                             age |-> IF hit THEN call[t].age ELSE 0,
                             stamped |-> call[t].key \in DOMAIN cache_timestamps,
                             seq |-> call[t].seq])
    /\ call' = [call EXCEPT ![t] = Idle]

\* a key without a timestamp counted as just stored
IsFresh_MissingIsNew(ts, t, key) ==
    key \notin DOMAIN ts \/ t - ts[key] < cache_ttl

\* parser.py:70, the right operand of the and: the age test, the age of a
\* key without a timestamp being counted from datetime.min
IsFresh(ts, t, key) ==
    key \in DOMAIN ts /\ t - ts[key] < cache_ttl

InitThreads ==
    /\ cache = <<>>
    /\ cache_timestamps = <<>>
    /\ now = 0
    /\ last = [op |-> "none"]
    /\ call = [t \in Callers |-> Idle]
    /\ rets = <<>>
    /\ ParkedKey
    /\ ParkedPipe
    /\ ParkedBot

\* parser.py:69: the call starts and computes its key
Enter(t) ==
    /\ call[t].pc = "idle"
    /\ Len(rets) + Cardinality(InFlight) < MaxCalls
    /\ \E query \in ThreadQueries :
           call' = [call EXCEPT ![t] = [Idle EXCEPT !.pc = "test_key",
                                                    !.key = generate_cache_key(query),
                                                    !.seq = Len(rets)]]
    /\ UNCHANGED <<cache, cache_timestamps, now, last, rets>>

\* parser.py:70: cache_key in self.cache
TestKey(t) ==
    /\ call[t].pc = "test_key"
    /\ call' = [call EXCEPT ![t].pc = IF CacheHas(cache, call[t].key)
                                      THEN "test_age" ELSE "post"]
    /\ UNCHANGED <<cache, cache_timestamps, now, last, rets>>

\* parser.py:70: the age of the key's timestamp against cache_ttl
TestAge(t) ==
    /\ call[t].pc = "test_age"
    /\ call' = [call EXCEPT ![t].pc = IF IsFresh(cache_timestamps, now, call[t].key)
                                      THEN "read" ELSE "post",
                            ![t].age = IF call[t].key \in DOMAIN cache_timestamps
                                       THEN now - cache_timestamps[call[t].key]
                                       ELSE -1]
    /\ UNCHANGED <<cache, cache_timestamps, now, last, rets>>

\* parser.py:71: return self.cache[cache_key]
ReadHit(t) ==
    /\ call[t].pc = "read"
    /\ Return(t, TRUE, FALSE, CacheGet(cache, call[t].key))
    /\ UNCHANGED <<cache, cache_timestamps, now, last>>

\* parser.py:78-102 and 108-110: the POST and the extraction of the URLs;
\* an exception returns [] with nothing stored
Post(t) ==
    /\ call[t].pc = "post"
    /\ \E response \in ThreadResponses :
           IF response.kind # "ok"
           THEN Return(t, FALSE, FALSE, <<>>)
           ELSE /\ call' = [call EXCEPT ![t].pc = "store_list",
                                        ![t].found = Take(ExtractUrls(response.body),
                                                          MaxUrls)]
                /\ rets' = rets
    /\ UNCHANGED <<cache, cache_timestamps, now, last>>

\* parser.py:104: self.cache[cache_key] = urls[:10]
StoreList(t) ==
    /\ call[t].pc = "store_list"
    /\ cache' = CachePut(cache, call[t].key, call[t].found)
    /\ call' = [call EXCEPT ![t].pc = "store_stamp"]
    /\ UNCHANGED <<cache_timestamps, now, last, rets>>

\* parser.py:105-106: self.cache_timestamps[cache_key] = datetime.now() and
\* the return of the list
StoreStamp(t) ==
    /\ call[t].pc = "store_stamp"
    /\ cache_timestamps' = DictPut(cache_timestamps, call[t].key, now)
    /\ Return(t, FALSE, TRUE, call[t].found)
    /\ UNCHANGED <<cache, now, last>>

Step(t) ==
    /\ \/ Enter(t)
       \/ TestKey(t)
       \/ TestAge(t)
       \/ ReadHit(t)
       \/ Post(t)
       \/ StoreList(t)
       \/ StoreStamp(t)
    /\ UNCHANGED varsKey
    /\ UNCHANGED varsBot
    /\ UNCHANGED varsPipe

\* the clock advances while callers wait for a response or between calls;
\* the accesses to the maps within one call follow each other in far less
\* than a tick
Wait ==
    /\ \A t \in Callers : call[t].pc \in {"idle", "post"}
    /\ Tick

NextThreads == (\E t \in Callers : Step(t)) \/ Wait

SpecThreads == InitThreads /\ [][NextThreads]_vars

\* every caller has returned
Quiescent == InFlight = {}

\* the calls rets[i] and rets[j] ran at the same time
Overlap(i, j) == i < j /\ rets[j].seq < i

\* C29: in every interleaving of concurrent search calls on one cache, a
\* call that returns as a hit found the key's timestamp present and younger
\* than cache_ttl, and the key has a timestamp when the call returns; once
\* all calls have returned, the URL map and the timestamp map hold the same
\* keys, and the list of each key is the list one of the searches for that
\* key found and stored.
C29_ConcurrentCallersKeepCache ==
    /\ \A i \in 1..Len(rets) :
           rets[i].hit =>
               /\ rets[i].age >= 0
               /\ rets[i].age < cache_ttl
               /\ rets[i].stamped
               /\ \E response \in ThreadResponses :
                      /\ response.kind = "ok"
                      /\ rets[i].ret = Take(ExtractUrls(response.body), MaxUrls)
    /\ Quiescent =>
           /\ Range(CacheKeys(cache)) = DOMAIN cache_timestamps
           /\ \A key \in Range(CacheKeys(cache)) :
                  \E i \in 1..Len(rets) :
                      /\ rets[i].stored
                      /\ rets[i].key = key
                      /\ rets[i].ret = CacheGet(cache, key)

\* two searches for one key ran at the same time and found different lists,
\* a later call hit the entry they left
C29_Witness ==
    /\ Quiescent
    /\ Len(rets) = 3
    /\ rets[1].stored
    /\ rets[2].stored
    /\ Overlap(1, 2)
    /\ rets[1].key = rets[2].key
    /\ rets[1].ret # rets[2].ret
    /\ rets[3].hit
    /\ rets[3].key = rets[1].key
    /\ rets[3].ret = rets[1].ret

-----------------------------------------------------------------------------
(* Claim about the counters of parse_events, checked under SpecPipeline *)

TerminalStates == {"Accepted", "SkippedInvalidTitle", "SkippedPastDate", "SkippedError"}

\* how many of the processed URLs ended in the terminal state s
Ended(s) == Cardinality({i \in 1..Len(steps) : steps[i].terminal = s})

\* C30: every candidate URL ends in exactly one of the four terminal
\* states; when parse_events finishes, the added count plus the skipped
\* count equals the number of candidate URLs and the added count equals the
\* length of the returned collection.
C30_CountsAddUp ==
    /\ \A i \in 1..Len(steps) : steps[i].terminal \in TerminalStates
    /\ added_count = Ended("Accepted")
    /\ skipped_count = Ended("SkippedInvalidTitle") + Ended("SkippedPastDate")
                       + Ended("SkippedError")
    /\ added_count + skipped_count = Len(steps)
    /\ added_count = Len(events)
    /\ pc = "returned" =>
           /\ Len(steps) = Len(urls)
           /\ added_count + skipped_count = Len(urls)

\* a finished run of three URLs met an accept and skips of different kinds
C30_Witness ==
    /\ pc = "returned"
    /\ Len(urls) = 3
    /\ Ended("Accepted") = 1
    /\ Ended("SkippedError") = 1
    /\ Ended("SkippedPastDate") = 1
    /\ added_count = 1
    /\ skipped_count = 2
    /\ Len(events) = 1

-----------------------------------------------------------------------------
(* Claims about the fields of a record the model cannot write, checked     *)
(* under SpecParse                                                         *)

\* the object the model answered, as parse decodes it
Answered == parse_llm_response(call.page.llm.text)

\* the model was asked and its answer holds the key
AnswerHasKey(key) ==
    /\ call.page.fetch = "ok"
    /\ ~call.page.llm.raises
    /\ Answered.kind = "dict"
    /\ HasKey(Answered, key)

\* C31: the Source URL of every record is the candidate URL parse was
\* called with, and Parsed Date is empty or the date the normalizer
\* resolved from the Start Date the model answered; the keys 'Source URL'
\* and 'Parsed Date' of a model response change neither field.
C31_SourceUrlAndParsedDateNotFromModel ==
    Returned =>
        /\ rets[1].data["Source URL"] = call.url
        /\ rets[1].data["Parsed Date"] # <<>> =>
               /\ AnswerHasKey("Start Date")
               /\ rets[1].data["Parsed Date"] =
                      parse_date_string(strip(GetValue(Answered, "Start Date").s),
                                        CurrentYear)
               /\ rets[1].data["Parsed Date"] # None
        /\ (AnswerHasKey("Parsed Date") /\ ~AnswerHasKey("Start Date")) =>
               rets[1].data["Parsed Date"] = <<>>

\* a record returned for an answer that holds both keys and a date
C31_Witness ==
    /\ Returned
    /\ AnswerHasKey("Source URL")
    /\ AnswerHasKey("Parsed Date")
    /\ rets[1].data["Parsed Date"] # <<>>
    /\ GetValue(Answered, "Source URL").s # call.url
    /\ rets[1].data["Parsed Date"] #
           parse_date_string(GetValue(Answered, "Parsed Date").s, CurrentYear)

-----------------------------------------------------------------------------
(* The users table and update_user_calendar (main.py:45-72, 228-249)       *)

\* fetchone() of a SELECT that finds no row
NoRow == [missing |-> TRUE]

\* one row of users; unique_id, registration_date and username are written
\* once and never read back by a decision of the bot
Row(full_name, email, company_name, position, calendar) ==
    [full_name |-> full_name, email |-> email, company_name |-> company_name,
     position |-> position, calendar |-> calendar]

\* s.split(sep) for a separator of one character
RECURSIVE SplitOn(_, _)
SplitOn(s, sep) ==
    IF sep \notin Range(s) THEN <<s>>
    ELSE <<SubSeq(s, 1, SetMin({i \in 1..Len(s) : s[i] = sep}) - 1)>>
         \o SplitOn(SubSeq(s, SetMin({i \in 1..Len(s) : s[i] = sep}) + 1, Len(s)), sep)

\* [e.strip() for e in parts if e.strip()]
RECURSIVE StripNonEmpty(_)
StripNonEmpty(parts) ==
    IF parts = <<>> THEN <<>>
    ELSE IF strip(Head(parts)) = <<>> THEN StripNonEmpty(Tail(parts))
    ELSE <<strip(Head(parts))>> \o StripNonEmpty(Tail(parts))

\* main.py:237 (and 111): the events a calendar text lists
CalendarEvents(calendar) == StripNonEmpty(SplitOn(calendar, ";"))

\* "; ".join(events)
RECURSIVE JoinEvents(_)
JoinEvents(list) ==
    IF list = <<>> THEN <<>>
    ELSE IF Len(list) = 1 THEN Head(list)
    ELSE Head(list) \o <<";", " ">> \o JoinEvents(Tail(list))

\* the event appended whether or not the calendar lists it
NewCalendar_AlwaysAppends(row, event_name) ==
    IF row = NoRow THEN [write |-> FALSE, calendar |-> <<>>]
    ELSE [write |-> TRUE,
          calendar |-> JoinEvents(Append(CalendarEvents(row.calendar), event_name))]

\* main.py:235-240 on the row the SELECT returned: whether the UPDATE is
\* made, and the text it writes
NewCalendar(row, event_name) ==
    IF row = NoRow THEN [write |-> FALSE, calendar |-> <<>>]
    ELSE IF event_name \in Range(CalendarEvents(row.calendar))
    THEN [write |-> FALSE, calendar |-> row.calendar]
    ELSE [write |-> TRUE,
          calendar |-> JoinEvents(Append(CalendarEvents(row.calendar), event_name))]

\* UPDATE users SET calendar = ? WHERE user_id = ?: no row, nothing written
SetCalendar(table, user_id, calendar) ==
    IF table[user_id] = NoRow THEN table
    ELSE [table EXCEPT ![user_id].calendar = calendar]

-----------------------------------------------------------------------------
(* SpecCalendar: update_user_calendar and clear_calendar called one after  *)
(* the other, each call running to its end before the next starts          *)

MaxCalendarCalls == 3

UserIds == {1, 2}

E_conf == <<"c","o","n","f","a">>
E_meet == <<"m","e","e","t","b">>
E_both == <<"c","o","n","f","a",";","m","e","e","t","b">>
E_day == <<"c","o","n","f","a",";"," ","d","a","y","2">>
EventNames == {E_conf, E_meet, E_both, E_day}

Employee == Row(<<"A","n","n">>, <<"a","@","b",".","c">>, <<"C","o">>, <<"d","e","v">>, <<>>)

InitCalendar ==
    /\ users = [u \in UserIds |-> IF u = 1 THEN Employee ELSE NoRow]
    /\ fsm = <<>>
    /\ keyboards = {}
    /\ tasks = <<>>
    /\ trace = <<>>
    /\ ParkedCache
    /\ ParkedKey
    /\ ParkedPipe
    /\ ParkedCall

\* update_user_calendar(user_id, event_name), main.py:228-249
UpdateUserCalendar ==
    /\ Len(trace) < MaxCalendarCalls
    /\ \E user_id \in UserIds, event_name \in EventNames :
        \E new \in {NewCalendar(users[user_id], event_name)} :
            /\ users' = IF new.write THEN SetCalendar(users, user_id, new.calendar)
                        ELSE users
            /\ trace' = Append(trace, [fn |-> "update_user_calendar",
                                       user_id |-> user_id, event_name |-> event_name,
                                       before |-> users[user_id], ret |-> new.write])
    /\ UNCHANGED <<fsm, keyboards, tasks>>
    /\ UNCHANGED <<varsCache, varsKey, varsPipe, varsCall>>

\* the UPDATE of clear_calendar, main.py:518-523
ClearCalendar ==
    /\ Len(trace) < MaxCalendarCalls
    /\ \E user_id \in UserIds :
        /\ users' = SetCalendar(users, user_id, <<>>)
        /\ trace' = Append(trace, [fn |-> "clear_calendar", user_id |-> user_id,
                                   event_name |-> <<>>,
                                   before |-> users[user_id], ret |-> TRUE])
    /\ UNCHANGED <<fsm, keyboards, tasks>>
    /\ UNCHANGED <<varsCache, varsKey, varsPipe, varsCall>>

NextCalendar == UpdateUserCalendar \/ ClearCalendar

SpecCalendar == InitCalendar /\ [][NextCalendar]_vars

\* the i-th call asks for an event name that an earlier call added to the
\* same calendar, which has not been cleared since
AddedBefore(i) ==
    /\ trace[i].fn = "update_user_calendar"
    /\ \E j \in 1..(i - 1) :
        /\ trace[j].fn = "update_user_calendar"
        /\ trace[j].user_id = trace[i].user_id
        /\ trace[j].event_name = trace[i].event_name
        /\ trace[j].ret
        /\ \A k \in (j + 1)..(i - 1) :
            ~(trace[k].fn = "clear_calendar" /\ trace[k].user_id = trace[i].user_id)

\* the row the i-th call left behind
RowAfter(i) == IF i = Len(trace) THEN users[trace[i].user_id] ELSE trace[i + 1].before

NoEventTwice(list) ==
    \A i, j \in 1..Len(list) : list[i] = list[j] => i = j

\* C34 (as stated): update_user_calendar with an event name already in
\* the user's calendar returns False and leaves the calendar unchanged, and
\* after any sequence of update_user_calendar and clear_calendar calls
\* made one after the other no calendar lists an event name twice.
C34_AddIsIdempotent ==
    /\ \A i \in 1..Len(trace) :
        AddedBefore(i) => ~trace[i].ret /\ RowAfter(i) = trace[i].before
    /\ \A u \in UserIds :
        users[u] # NoRow => NoEventTwice(CalendarEvents(users[u].calendar))

-----------------------------------------------------------------------------
(* SpecCalendarTasks: update_user_calendar called from handlers that run   *)
(* as concurrent tasks of one event loop (main.py:458).  Each call opens   *)
(* its own connection; a step is one statement on the database: the        *)
(* SELECT, the UPDATE (which takes the write lock of the database file)    *)
(* and the commit (which makes the new text visible and frees the lock).   *)
(* tasks[t] is where the call of task t stands and what it holds in its    *)
(* local variables.                                                        *)

TaskIds == {"task_1", "task_2"}

PlainNames == {E_conf, E_meet}

NoCall == [pc |-> "idle", user_id |-> 0, event_name |-> <<>>, new_calendar |-> <<>>,
           started |-> 0]

CallsInFlight == {t \in TaskIds : tasks[t].pc # "idle"}

InitCalendarTasks ==
    /\ users = [u \in UserIds |-> IF u = 1 THEN Employee ELSE NoRow]
    /\ fsm = <<>>
    /\ keyboards = {}
    /\ tasks = [t \in TaskIds |-> NoCall]
    /\ trace = <<>>
    /\ ParkedCache
    /\ ParkedKey
    /\ ParkedPipe
    /\ ParkedCall

\* the call of task t returns, or raises
ReturnFromUpdate(t, ret, raised) ==
    /\ trace' = Append(trace, [fn |-> "update_user_calendar",
                               user_id |-> tasks[t].user_id,
                               event_name |-> tasks[t].event_name,
                               started |-> tasks[t].started,
                               ret |-> ret, raised |-> raised])
    /\ tasks' = [tasks EXCEPT ![t] = NoCall]

\* main.py:228-229: the call starts and connects
CallUpdate(t) ==
    /\ tasks[t].pc = "idle"
    /\ Len(trace) + Cardinality(CallsInFlight) < MaxCalendarCalls
    /\ \E user_id \in UserIds, event_name \in PlainNames :
        tasks' = [tasks EXCEPT ![t] = [pc |-> "select", user_id |-> user_id,
                                       event_name |-> event_name,
                                       new_calendar |-> <<>>,
                                       started |-> Len(trace)]]
    /\ UNCHANGED <<users, trace>>
    /\ UNCHANGED <<fsm, keyboards>>
    /\ UNCHANGED <<varsCache, varsKey, varsPipe, varsCall>>

\* main.py:230-240: the SELECT, and the new text computed from its result
SelectCalendar(t) ==
    /\ tasks[t].pc = "select"
    /\ \E new \in {NewCalendar(users[tasks[t].user_id], tasks[t].event_name)} :
        IF new.write
        THEN /\ tasks' = [tasks EXCEPT ![t].pc = "update",
                                       ![t].new_calendar = new.calendar]
             /\ UNCHANGED trace
        ELSE ReturnFromUpdate(t, FALSE, FALSE)
    /\ UNCHANGED users
    /\ UNCHANGED <<fsm, keyboards>>
    /\ UNCHANGED <<varsCache, varsKey, varsPipe, varsCall>>

\* main.py:241-244: the UPDATE, made once no other connection holds the
\* write lock
UpdateCalendar(t) ==
    /\ tasks[t].pc = "update"
    /\ \A o \in TaskIds : tasks[o].pc # "commit"
    /\ tasks' = [tasks EXCEPT ![t].pc = "commit"]
    /\ UNCHANGED <<users, trace>>
    /\ UNCHANGED <<fsm, keyboards>>
    /\ UNCHANGED <<varsCache, varsKey, varsPipe, varsCall>>

\* the UPDATE while another connection holds the write lock beyond the
\* timeout of the connection: sqlite3.OperationalError leaves the call
DatabaseLocked(t) ==
    /\ tasks[t].pc = "update"
    /\ \E o \in TaskIds : tasks[o].pc = "commit"
    /\ ReturnFromUpdate(t, FALSE, TRUE)
    /\ UNCHANGED users
    /\ UNCHANGED <<fsm, keyboards>>
    /\ UNCHANGED <<varsCache, varsKey, varsPipe, varsCall>>

\* main.py:245-246: the commit and return True
CommitCalendar(t) ==
    /\ tasks[t].pc = "commit"
    /\ users' = SetCalendar(users, tasks[t].user_id, tasks[t].new_calendar)
    /\ ReturnFromUpdate(t, TRUE, FALSE)
    /\ UNCHANGED <<fsm, keyboards>>
    /\ UNCHANGED <<varsCache, varsKey, varsPipe, varsCall>>

NextCalendarTasks ==
    \E t \in TaskIds :
        \/ CallUpdate(t)
        \/ SelectCalendar(t)
        \/ UpdateCalendar(t)
        \/ DatabaseLocked(t)
        \/ CommitCalendar(t)

SpecCalendarTasks == InitCalendarTasks /\ [][NextCalendarTasks]_vars

\* the i-th and the j-th call to return ran at the same time: the later
\* one had started when the earlier one returned
Concurrent(i, j) == i < j /\ trace[j].started < i

Lists(user_id, event_name) ==
    /\ users[user_id] # NoRow
    /\ event_name \in Range(CalendarEvents(users[user_id].calendar))

\* C33 (as stated): when two update_user_calendar calls for the same user
\* with two different event names run concurrently and both return True,
\* the user's calendar, once the calls have returned, lists both event
\* names, however their database reads and writes interleave.
C33_NoLostCalendarUpdate ==
    CallsInFlight = {} =>
        \A i, j \in 1..Len(trace) :
            ( /\ Concurrent(i, j)
              /\ trace[i].user_id = trace[j].user_id
              /\ trace[i].event_name # trace[j].event_name
              /\ trace[i].ret /\ trace[j].ret )
            => /\ Lists(trace[i].user_id, trace[i].event_name)
               /\ Lists(trace[j].user_id, trace[j].event_name)

-----------------------------------------------------------------------------
(* The bot: validators, keyboards and routing of updates (main.py:19-25,   *)
(* 74-80, 135-146 and the decorators of the handlers)                      *)

\* main.py:19-25
MANAGING_POSITIONS ==
    <<<<"ru_d","ru_i","ru_r","ru_e","ru_k","ru_t","ru_o","ru_r">>,
      <<"ru_g","ru_e","ru_n","ru_e","ru_r","ru_a","ru_l","ru_soft","ru_n","ru_y","ru_j"," ","ru_d","ru_i","ru_r","ru_e","ru_k","ru_t","ru_o","ru_r">>,
      <<"c","e","o">>,
      <<"ru_r","ru_u","ru_k","ru_o","ru_v","ru_o","ru_d","ru_i","ru_t","ru_e","ru_l","ru_soft">>,
      <<"ru_z","ru_a","ru_m","ru_e","ru_s","ru_t","ru_i","ru_t","ru_e","ru_l","ru_soft"," ","ru_d","ru_i","ru_r","ru_e","ru_k","ru_t","ru_o","ru_r","ru_a">>,
      <<"ru_v","ru_i","ru_c","ru_e","-","ru_p","ru_r","ru_e","ru_z","ru_i","ru_d","ru_e","ru_n","ru_t">>,
      <<"v","p">>,
      <<"c","o","o">>,
      <<"c","t","o">>,
      <<"c","f","o">>,
      <<"ru_u","ru_p","ru_r","ru_a","ru_v","ru_l","ru_ya","ru_yu","ru_sch","ru_i","ru_j">>,
      <<"ru_u","ru_p","ru_r","ru_a","ru_v","ru_l","ru_ya","ru_yu","ru_sch","ru_i","ru_j"," ","ru_d","ru_i","ru_r","ru_e","ru_k","ru_t","ru_o","ru_r">>,
      <<"ru_n","ru_a","ru_ch","ru_a","ru_l","ru_soft","ru_n","ru_i","ru_k">>,
      <<"ru_sh","ru_e","ru_f">>,
      <<"ru_v","ru_l","ru_a","ru_d","ru_e","ru_l","ru_e","ru_c">>,
      <<"ru_s","ru_o","ru_b","ru_s","ru_t","ru_v","ru_e","ru_n","ru_n","ru_i","ru_k">>,
      <<"f","o","u","n","d","e","r">>,
      <<"ru_o","ru_s","ru_n","ru_o","ru_v","ru_a","ru_t","ru_e","ru_l","ru_soft">>>>

\* main.py:74-76
is_managing_position(position) ==
    \E i \in 1..Len(MANAGING_POSITIONS) :
        Contains(strip(lower(position)), MANAGING_POSITIONS[i])

\* the character classes of the pattern at main.py:79
EmailLocalChars == LatinLetters \cup Range(SubSeq(Digits, 1, 10)) \cup {"_", ".", "+", "-"}
EmailDomainChars == LatinLetters \cup Range(SubSeq(Digits, 1, 10)) \cup {"-"}
EmailTailChars == EmailDomainChars \cup {"."}

\* every character of s[a..b] is in the class, and there is at least one
AllIn(s, a, b, class) == a <= b /\ \A k \in a..b : s[k] \in class

\* main.py:78-80: re.match of ^[a-zA-Z0-9_.+-]+@[a-zA-Z0-9-]+\.[a-zA-Z0-9-.]+$
\* (the text was stripped, so it does not end with a newline)
is_valid_email(email) ==
    \E i, j \in 1..Len(email) :
        /\ email[i] = "@"
        /\ email[j] = "."
        /\ AllIn(email, 1, i - 1, EmailLocalChars)
        /\ AllIn(email, i + 1, j - 1, EmailDomainChars)
        /\ AllIn(email, j + 1, Len(email), EmailTailChars)

\* the user whose conversation is modelled, and the colleague of the same
\* company registered before
Actor == 2
Colleague == 1

\* main.py:135-146
get_main_menu(is_manager) ==
    {"search_archive", "find_events", "view_calendar", "my_data"}
    \cup (IF is_manager THEN {"register_employee"} ELSE {})

\* f"select_employee_{employee['user_id']}", main.py:413
SelectButton(user_id) ==
    IF user_id = 1 THEN "select_employee_1" ELSE "select_employee_2"
SelectButtons == {SelectButton(u) : u \in UserIds}
\* int(callback_query.data.split("select_employee_")[1]), main.py:429
ButtonUser(data) == CHOOSE u \in UserIds : SelectButton(u) = data

\* the keys of the conversation data; a key that was not set holds NoKey
\* (0 for the identifier)
NoKey == <<"<no key>">>
EmptyStateData ==
    [full_name |-> NoKey, email |-> NoKey, company_name |-> NoKey,
     selected_employee_id |-> 0, selected_employee_name |-> NoKey]

\* MemoryStorage after state.clear(): no state, no data
ClearedState == [state |-> "none", data |-> EmptyStateData]

\* Command(name): the text is the command, alone or followed by arguments
IsCommand(text, name) ==
    \/ text = <<"/">> \o name
    \/ StartsWith(text, <<"/">> \o name \o <<" ">>)

C_start == <<"s","t","a","r","t">>
C_mydata == <<"m","y","d","a","t","a">>
C_reregister == <<"r","e","r","e","g","i","s","t","e","r">>

\* the states a message handler is registered for (main.py:271-698)
HandledStates ==
    {"waiting_for_full_name", "waiting_for_email", "waiting_for_company",
     "waiting_for_position", "waiting_for_single_employee_event",
     "waiting_for_event_query", "waiting_for_search_query"}

\* the message handler an incoming text reaches: the first one, in the
\* order of registration, whose filter accepts it (main.py:251, 271-308,
\* 446, 638, 698, 781, 814, 862)
MessageHandler(text) ==
    IF IsCommand(text, C_start) THEN "cmd_start"
    ELSE IF fsm.state = "waiting_for_full_name" THEN "process_full_name"
    ELSE IF fsm.state = "waiting_for_email" THEN "process_email"
    ELSE IF fsm.state = "waiting_for_company" THEN "process_company"
    ELSE IF fsm.state = "waiting_for_position" THEN "process_position"
    ELSE IF fsm.state = "waiting_for_single_employee_event"
    THEN "process_single_employee_event"
    ELSE IF fsm.state = "waiting_for_event_query" THEN "process_event_query"
    ELSE IF fsm.state = "waiting_for_search_query" THEN "process_search_query"
    ELSE IF IsCommand(text, C_mydata) THEN "cmd_mydata"
    ELSE IF IsCommand(text, C_reregister) THEN "cmd_reregister"
    ELSE "handle_other_messages"


\* get_company_employees leaves out the rows whose position is LIKE one of
\* these patterns (main.py:204-215); LIKE ignores the case of ASCII letters
LikePatterns ==
    <<MANAGING_POSITIONS[1], MANAGING_POSITIONS[4], MANAGING_POSITIONS[13],
      MANAGING_POSITIONS[11], SubSeq(MANAGING_POSITIONS[5], 1, 11),
      <<"c","e","o">>, <<"c","o","o">>, <<"c","t","o">>, <<"c","f","o">>, <<"v","p">>>>

AsciiLower(s) ==
    [i \in 1..Len(s) |-> IF s[i] \in Range(LatinUpper) THEN LowerChar(s[i]) ELSE s[i]]

ManagerLike(position) ==
    \E i \in 1..Len(LikePatterns) : Contains(AsciiLower(position), LikePatterns[i])

\* main.py:193-226: the user_ids get_company_employees returns
get_company_employees(table, manager_user_id) ==
    IF table[manager_user_id] = NoRow THEN {}
    ELSE {u \in UserIds :
            /\ u # manager_user_id
            /\ table[u] # NoRow
            /\ table[u].company_name = table[manager_user_id].company_name
            /\ ~ManagerLike(table[u].position)}

\* is_managing_position(user_data['position']) if user_data else False
IsManager(row) == row # NoRow /\ is_managing_position(row.position)

\* the inline keyboard a handler sends once it has read the user's row
\* (main.py:255-262, 384-418, 487-511, 538-553, 560-579, 620-626, 680-687,
\* 729-736, 744-770, 786-812, 819-833, 855-860, 864-870)
Keyboard(handler, row) ==
    IF handler = "cmd_start"
    THEN IF row # NoRow THEN get_main_menu(IsManager(row)) ELSE {}
    ELSE IF handler = "register_employee_start"
    THEN IF row = NoRow THEN {"start_registration"}
         ELSE IF ~IsManager(row) \/ get_company_employees(users, Actor) = {} THEN {}
         ELSE {SelectButton(u) : u \in get_company_employees(users, Actor)}
              \cup {"back_to_menu"}
    ELSE IF handler = "view_calendar"
    THEN IF row = NoRow THEN {"start_registration"}
         ELSE (IF strip(row.calendar) # <<>> THEN {"clear_calendar"} ELSE {})
              \cup {"back_to_menu"}
    ELSE IF handler \in {"back_to_menu", "process_my_data", "cmd_mydata"}
    THEN IF row # NoRow THEN get_main_menu(IsManager(row)) ELSE {"start_registration"}
    ELSE IF handler = "process_find_events"
    THEN IF row = NoRow THEN {"start_registration"}
         ELSE {"search_by_position", "search_custom_query"}
    ELSE IF handler = "cmd_reregister"
    THEN IF row # NoRow THEN {"confirm_reregister", "cancel_reregister"}
         ELSE get_main_menu(FALSE)
    ELSE get_main_menu(IsManager(row))

\* the state the handler sets after that keyboard, "none" when it returns
\* without setting one (main.py:269, 423)
StateAfterRead(handler, row) ==
    IF handler = "cmd_start" /\ row = NoRow THEN "waiting_for_full_name"
    ELSE IF /\ handler = "register_employee_start"
            /\ IsManager(row)
            /\ get_company_employees(users, Actor) # {}
    THEN "waiting_for_employee_selection"
    ELSE "none"

-----------------------------------------------------------------------------
(* SpecBot: one user talking to the bot.  Updates (messages and presses of *)
(* buttons the bot has sent) are handled as tasks of one event loop        *)
(* (Dispatcher.start_polling, main.py:875): a handler runs until it waits  *)
(* for the network or the database, and another update may be dispatched   *)
(* meanwhile.  The awaits on MemoryStorage return without waiting, so a    *)
(* step of a handler runs from one wait on Telegram or SQLite to the next. *)
(* tasks[t] is the handler task t runs, the step it waits to make and its  *)
(* local variables.                                                        *)

MaxUpdates == 6

Txt_start == <<"/">> \o C_start
Txt_reregister == <<"/">> \o C_reregister
Txt_mydata == <<"/">> \o C_mydata
Txt_x == <<" ", "x", " ">>
Txt_co == <<"C","o">>
Txt_cto == <<"C","T","O">>
Txt_mail == <<"a","@","b",".","c">>
Texts == {Txt_start, Txt_reregister, Txt_mydata, Txt_x, Txt_co, Txt_cto, Txt_mail}

Buttons ==
    {"search_archive", "find_events", "register_employee", "view_calendar", "my_data",
     "start_registration", "back_to_menu", "clear_calendar", "search_by_position",
     "search_custom_query", "confirm_reregister", "cancel_reregister"} \cup SelectButtons

Staff == Row(<<"A","n","n">>, Txt_mail, Txt_co, <<"d","e","v">>, <<>>)
Boss == Row(<<"B","o","b">>, Txt_mail, Txt_co, Txt_cto, E_conf)

NoTask ==
    [handler |-> "none", pc |-> "idle", text |-> <<>>, target |-> "none",
     employee_id |-> 0, data |-> EmptyStateData, new_calendar |-> <<>>,
     is_manager |-> FALSE]

\* what the last step was: kind "input" for a message handled by a handler
\* that validates its text (valid: the text passes the handler's test;
\* data_ok: the data held the keys the handler reads; changed: the step
\* changed the state, the data or the table, or left the handler with
\* steps to make), "row_written" and "calendar_write" for the writes
NoEvent ==
    [kind |-> "none", handler |-> "none", valid |-> TRUE, changed |-> FALSE,
     data_ok |-> TRUE, by_manager |-> TRUE, target |-> 0]

InitBot ==
    /\ users \in {[u \in UserIds |-> IF u = Colleague THEN Staff ELSE row] :
                     row \in {NoRow, Boss}}
    /\ fsm = ClearedState
    /\ keyboards = {}
    /\ tasks = [t \in TaskIds |-> NoTask]
    /\ trace = [updates |-> 0, passed |-> 0, overlapped |-> FALSE, event |-> NoEvent]
    /\ ParkedCache
    /\ ParkedKey
    /\ ParkedPipe
    /\ ParkedCall

Running == {t \in TaskIds : tasks[t].pc # "idle"}

\* an update can be taken: the user has updates left to send and a task
\* is free
Dispatchable == trace.updates < MaxUpdates /\ Running # TaskIds
FreeTask == IF tasks["task_1"].pc = "idle" THEN "task_1" ELSE "task_2"

UnchangedParser == UNCHANGED <<varsCache, varsKey, varsPipe, varsCall>>

\* the handler goes on as a task, waiting to make the step
Start(handler, step, text, target, employee_id) ==
    tasks' = [tasks EXCEPT ![FreeTask] =
                 [NoTask EXCEPT !.handler = handler, !.pc = step, !.text = text,
                                !.target = target, !.employee_id = employee_id,
                                !.data = IF handler = "process_position"
                                         THEN fsm.data ELSE EmptyStateData]]

\* an update was dispatched: counted, and noted when a handler was running
Dispatched(event, passed) ==
    trace' = [updates |-> trace.updates + 1, passed |-> passed,
              overlapped |-> trace.overlapped \/ Running # {}, event |-> event]

Stepped(event) == trace' = [trace EXCEPT !.event = event]

\* how far the inputs that passed validation follow the order full name
\* (1), email (2), company (3), position (4), after one more that passed
Passed(stage) ==
    IF stage = 1 THEN 1
    ELSE IF trace.passed = stage - 1 THEN stage
    ELSE 0

\* a message handler that does nothing before its first wait
\* (main.py:251-254, 781-784, 814-817, 862-864)
Command(handler, text) ==
    /\ Dispatchable
    /\ MessageHandler(text) = handler
    /\ Start(handler, "read", text, "none", 0)
    /\ Dispatched([NoEvent EXCEPT !.kind = "dispatched", !.handler = handler],
                  trace.passed)
    /\ UNCHANGED <<users, fsm, keyboards>>
    /\ UnchangedParser

cmd_start(text) == Command("cmd_start", text)
cmd_mydata(text) == Command("cmd_mydata", text)
cmd_reregister(text) == Command("cmd_reregister", text)
handle_other_messages(text) == Command("handle_other_messages", text)

\* one input of the registration: the text is tested; when the handler
\* goes on it stores the text under field and, after its answer, sets
\* next_state (main.py:271-305)
RegistrationInput(handler, text, valid, goes_on, field, next_state, stage) ==
    /\ Dispatchable
    /\ MessageHandler(text) = handler
    /\ IF goes_on
       THEN /\ fsm' = [fsm EXCEPT !.data[field] = strip(text)]
            /\ Start(handler, "set_state", strip(text), next_state, 0)
       ELSE UNCHANGED <<fsm, tasks>>
    /\ Dispatched([NoEvent EXCEPT !.kind = "input", !.handler = handler,
                                  !.valid = valid, !.changed = goes_on],
                  IF valid THEN Passed(stage) ELSE trace.passed)
    /\ UNCHANGED <<users, keyboards>>
    /\ UnchangedParser

\* main.py:271-281
process_full_name(text) ==
    RegistrationInput("process_full_name", text, Len(strip(text)) >= 3,
                      Len(strip(text)) >= 3, "full_name", "waiting_for_email", 1)

\* the address stored whatever its form
process_email_Unchecked(text) ==
    RegistrationInput("process_email", text, is_valid_email(strip(text)),
                      TRUE, "email", "waiting_for_company", 2)

\* main.py:283-293
process_email(text) ==
    RegistrationInput("process_email", text, is_valid_email(strip(text)),
                      is_valid_email(strip(text)), "email", "waiting_for_company", 2)

\* main.py:295-305
process_company(text) ==
    RegistrationInput("process_company", text, Len(strip(text)) >= 2,
                      Len(strip(text)) >= 2, "company_name", "waiting_for_position", 3)

\* a handler that reads keys of the data after testing its text: it goes
\* on to the step when the text passes and the keys are there, and is
\* left by KeyError when the text passes and a key is missing
\* (main.py:307-318, 446-456)
DataInput(handler, text, valid, data_ok, step, stage) ==
    /\ Dispatchable
    /\ MessageHandler(text) = handler
    /\ IF valid /\ data_ok
       THEN Start(handler, step, strip(text), "none", fsm.data.selected_employee_id)
       ELSE UNCHANGED tasks
    /\ Dispatched([NoEvent EXCEPT !.kind = IF valid /\ ~data_ok THEN "KeyError" ELSE "input",
                                  !.handler = handler, !.valid = valid,
                                  !.changed = valid /\ data_ok, !.data_ok = data_ok],
                  IF valid /\ stage = 4 THEN Passed(stage) ELSE trace.passed)
    /\ UNCHANGED <<users, fsm, keyboards>>
    /\ UnchangedParser

\* main.py:307-318
process_position(text) ==
    DataInput("process_position", text, Len(strip(text)) >= 2,
              /\ fsm.data.full_name # NoKey
              /\ fsm.data.email # NoKey
              /\ fsm.data.company_name # NoKey,
              "save", 4)

\* main.py:446-456
process_single_employee_event(text) ==
    DataInput("process_single_employee_event", text, Len(strip(text)) >= 5,
              /\ fsm.data.selected_employee_id # 0
              /\ fsm.data.selected_employee_name # NoKey,
              "calendar_select", 0)

\* a query handler: the text is tested and the state cleared before the
\* first wait (main.py:638-646, 698-706)
QueryInput(handler, text) ==
    /\ Dispatchable
    /\ MessageHandler(text) = handler
    /\ IF Len(strip(text)) >= 3
       THEN /\ fsm' = ClearedState
            /\ Start(handler, "read", strip(text), "none", 0)
       ELSE UNCHANGED <<fsm, tasks>>
    /\ Dispatched([NoEvent EXCEPT !.kind = "input", !.handler = handler,
                                  !.valid = Len(strip(text)) >= 3,
                                  !.changed = Len(strip(text)) >= 3],
                  trace.passed)
    /\ UNCHANGED <<users, keyboards>>
    /\ UnchangedParser

process_event_query(text) == QueryInput("process_event_query", text)
process_search_query(text) == QueryInput("process_search_query", text)

\* a press of a button the bot has sent: every callback handler first
\* answers the query, so nothing is done before its first wait
CallbackQuery(handler, data, step, target) ==
    /\ Dispatchable
    /\ data \in keyboards
    /\ Start(handler, step, <<>>, target,
             IF data \in SelectButtons THEN ButtonUser(data) ELSE 0)
    /\ Dispatched([NoEvent EXCEPT !.kind = "dispatched", !.handler = handler],
                  trace.passed)
    /\ UNCHANGED <<users, fsm, keyboards>>
    /\ UnchangedParser

\* main.py:379-383
register_employee_start ==
    CallbackQuery("register_employee_start", "register_employee", "read", "none")
\* main.py:425-430
select_employee_for_registration ==
    \E data \in SelectButtons :
        CallbackQuery("select_employee_for_registration", data, "get_employee",
                      "waiting_for_single_employee_event")
\* main.py:482-486
view_calendar == CallbackQuery("view_calendar", "view_calendar", "read", "none")
\* main.py:513-516
clear_calendar == CallbackQuery("clear_calendar", "clear_calendar", "clear_calendar", "none")
\* main.py:533-537
back_to_menu == CallbackQuery("back_to_menu", "back_to_menu", "read", "none")
\* main.py:555-559
process_find_events == CallbackQuery("process_find_events", "find_events", "read", "none")
\* main.py:581-626: nothing but the search until the menu at the end
search_by_position == CallbackQuery("search_by_position", "search_by_position", "read", "none")
\* main.py:628-636
search_custom_query ==
    CallbackQuery("search_custom_query", "search_custom_query", "set_state",
                  "waiting_for_event_query")
\* main.py:689-696
process_search_archive ==
    CallbackQuery("process_search_archive", "search_archive", "set_state",
                  "waiting_for_search_query")
\* main.py:738-742
process_my_data == CallbackQuery("process_my_data", "my_data", "read", "none")
\* main.py:772-779
start_registration ==
    CallbackQuery("start_registration", "start_registration", "set_state",
                  "waiting_for_full_name")
\* main.py:835-837
confirm_reregister ==
    CallbackQuery("confirm_reregister", "confirm_reregister", "delete",
                  "waiting_for_full_name")
\* main.py:852-855
cancel_reregister == CallbackQuery("cancel_reregister", "cancel_reregister", "read", "none")

\* task t has made its last step
Done(t) == tasks' = [tasks EXCEPT ![t] = NoTask]

\* get_user_data(user_id) returns to the handler, which sends its keyboard
\* and returns, or goes on to set a state
GetUserData(t) ==
    /\ tasks[t].pc = "read"
    /\ keyboards' = keyboards \cup Keyboard(tasks[t].handler, users[Actor])
    /\ IF StateAfterRead(tasks[t].handler, users[Actor]) = "none"
       THEN Done(t)
       ELSE tasks' = [tasks EXCEPT ![t].pc = "set_state",
                                   ![t].target = StateAfterRead(tasks[t].handler,
                                                                users[Actor])]
    /\ Stepped(NoEvent)
    /\ UNCHANGED <<users, fsm>>
    /\ UnchangedParser

\* main.py:430-436: the employee's row is read and, when there is one, the
\* selection stored in the data
GetEmployeeData(t) ==
    /\ tasks[t].pc = "get_employee"
    /\ IF users[tasks[t].employee_id] = NoRow
       THEN Done(t) /\ UNCHANGED fsm
       ELSE /\ fsm' = [fsm EXCEPT
                          !.data.selected_employee_id = tasks[t].employee_id,
                          !.data.selected_employee_name =
                              users[tasks[t].employee_id].full_name]
            /\ tasks' = [tasks EXCEPT ![t].pc = "set_state"]
    /\ Stepped(NoEvent)
    /\ UNCHANGED <<users, keyboards>>
    /\ UnchangedParser

\* await state.set_state(...), the last statement of its handler
\* (main.py:269, 281, 293, 305, 423, 444, 636, 696, 779, 850)
SetState(t) ==
    /\ tasks[t].pc = "set_state"
    /\ fsm' = [fsm EXCEPT !.state = tasks[t].target]
    /\ Done(t)
    /\ Stepped(NoEvent)
    /\ UNCHANGED <<users, keyboards>>
    /\ UnchangedParser

\* save_user_data (main.py:160-191, called at 321): the row is updated, or
\* inserted with an empty calendar
SaveUserData(t) ==
    /\ tasks[t].pc = "save"
    /\ users' = [users EXCEPT ![Actor] =
                    Row(tasks[t].data.full_name, tasks[t].data.email,
                        tasks[t].data.company_name, tasks[t].text,
                        IF users[Actor] = NoRow THEN <<>> ELSE users[Actor].calendar)]
    /\ tasks' = [tasks EXCEPT ![t].pc = "clear",
                              ![t].is_manager = is_managing_position(tasks[t].text)]
    /\ Stepped([NoEvent EXCEPT !.kind = "row_written", !.handler = tasks[t].handler,
                               !.changed = TRUE])
    /\ UNCHANGED <<fsm, keyboards>>
    /\ UnchangedParser

\* await state.clear() and the menu sent after it (main.py:333-377, 474-479)
ClearState(t) ==
    /\ tasks[t].pc = "clear"
    /\ fsm' = ClearedState
    /\ keyboards' = keyboards \cup get_main_menu(tasks[t].is_manager)
    /\ Done(t)
    /\ Stepped(NoEvent)
    /\ UNCHANGED users
    /\ UnchangedParser

\* the SELECT of update_user_calendar called at main.py:458; when nothing
\* is to be written the handler reads the user's own row for the menu
SelectEmployeeCalendar(t) ==
    /\ tasks[t].pc = "calendar_select"
    /\ \E new \in {NewCalendar(users[tasks[t].employee_id], tasks[t].text)} :
        tasks' = [tasks EXCEPT ![t].pc = IF new.write THEN "calendar_update" ELSE "clear",
                               ![t].new_calendar = new.calendar,
                               ![t].is_manager = IsManager(users[Actor])]
    /\ Stepped(NoEvent)
    /\ UNCHANGED <<users, fsm, keyboards>>
    /\ UnchangedParser

\* the UPDATE and commit of update_user_calendar (main.py:241-246), and the
\* user's own row read after it (459-460)
UpdateEmployeeCalendar(t) ==
    /\ tasks[t].pc = "calendar_update"
    /\ users' = SetCalendar(users, tasks[t].employee_id, tasks[t].new_calendar)
    /\ tasks' = [tasks EXCEPT ![t].pc = "clear",
                              ![t].is_manager = IsManager(users[Actor])]
    /\ Stepped([NoEvent EXCEPT !.kind = "calendar_write", !.handler = tasks[t].handler,
                               !.changed = TRUE, !.target = tasks[t].employee_id,
                               !.by_manager = IsManager(users[Actor])])
    /\ UNCHANGED <<fsm, keyboards>>
    /\ UnchangedParser

\* DELETE FROM users WHERE user_id = ? and commit (main.py:839-844)
DeleteUser(t) ==
    /\ tasks[t].pc = "delete"
    /\ users' = [users EXCEPT ![Actor] = NoRow]
    /\ tasks' = [tasks EXCEPT ![t].pc = "set_state"]
    /\ Stepped(NoEvent)
    /\ UNCHANGED <<fsm, keyboards>>
    /\ UnchangedParser

\* UPDATE users SET calendar = '' of clear_calendar, the row read after it
\* and the menu (main.py:518-531)
ClearOwnCalendar(t) ==
    /\ tasks[t].pc = "clear_calendar"
    /\ users' = SetCalendar(users, Actor, <<>>)
    /\ keyboards' = keyboards \cup get_main_menu(IsManager(users[Actor]))
    /\ Done(t)
    /\ Stepped(NoEvent)
    /\ UNCHANGED fsm
    /\ UnchangedParser

NextBot ==
    \/ \E text \in Texts :
        \/ cmd_start(text)
        \/ process_full_name(text)
        \/ process_email(text)
        \/ process_company(text)
        \/ process_position(text)
        \/ process_single_employee_event(text)
        \/ process_event_query(text)
        \/ process_search_query(text)
        \/ cmd_mydata(text)
        \/ cmd_reregister(text)
        \/ handle_other_messages(text)
    \/ register_employee_start
    \/ select_employee_for_registration
    \/ view_calendar
    \/ clear_calendar
    \/ back_to_menu
    \/ process_find_events
    \/ search_by_position
    \/ search_custom_query
    \/ process_search_archive
    \/ process_my_data
    \/ start_registration
    \/ confirm_reregister
    \/ cancel_reregister
    \/ \E t \in TaskIds :
        \/ GetUserData(t)
        \/ GetEmployeeData(t)
        \/ SetState(t)
        \/ SaveUserData(t)
        \/ ClearState(t)
        \/ SelectEmployeeCalendar(t)
        \/ UpdateEmployeeCalendar(t)
        \/ DeleteUser(t)
        \/ ClearOwnCalendar(t)

SpecBot == InitBot /\ [][NextBot]_vars

-----------------------------------------------------------------------------
(* Claims about the handlers of the bot, checked under SpecBot             *)

\* C32 (as stated): over every sequence of commands, button presses and
\* messages, an event is written to another user's calendar only when the
\* acting user is registered with a managing position at the time of the
\* write.
C32_OnlyManagersRecordEmployees ==
    (trace.event.kind = "calendar_write" /\ trace.event.target # Actor)
        => trace.event.by_manager

\* C35 (as stated): whenever a message is dispatched to process_position
\* the conversation data holds full_name, email and company_name, and
\* whenever one is dispatched to process_single_employee_event it holds
\* selected_employee_id, for every sequence of updates of one user, the
\* handlers of that user interleaving at their waits.
C35_DataPresentWhenRead ==
    ( /\ trace.event.kind \in {"input", "KeyError"}
      /\ trace.event.handler \in {"process_position", "process_single_employee_event"} )
        => trace.event.data_ok


\* the handlers of the four registration inputs (main.py:271-318)
RegistrationHandlers ==
    {"process_full_name", "process_email", "process_company", "process_position"}

\* every field of the row passes the test of the handler that took it
ValidRow(row) ==
    /\ row # NoRow
    /\ Len(row.full_name) >= 3
    /\ is_valid_email(row.email)
    /\ Len(row.company_name) >= 2
    /\ Len(row.position) >= 2

=============================================================================
